---- MODULE Spec2Model ----
(***************************************************************************)
(* Model of the multithreaded web server: the bounded job schedulers       *)
(* (FIFO ring buffer, SJF binary heap), the worker pool built on them      *)
(* (one mutex, the condition variables not_empty and not_full, a shutdown  *)
(* flag) and the acceptor loop of main that feeds it.                      *)
(*                                                                         *)
(* A client socket is identified by the connection it belongs to: the      *)
(* n-th accepted connection has client_fd = n.                             *)
(***************************************************************************)
EXTENDS Integers, Sequences, FiniteSets, TLC

(* ------------------------------ bounds -------------------------------- *)

\* largest queue_capacity handed to threadpool_create
Capacity == 2
\* connections accepted over a run
MaxJobs == 3
\* size of the files under the docroot, the est_cost of a request for one
MaxEst == 1
\* largest capacity of the scheduler exercised on its own (SchedSpec)
SchedCap == 4
\* push calls made on the scheduler exercised on its own (SchedSpec)
MaxOps == 5
\* the later of the two arrival_ms handed to the scheduler exercised on its own
MaxArr == 1
\* milliseconds the clock may run ahead of the oldest queued job (StreamSpec)
MaxAge == 2
\* largest capacity of the scheduler fed an endless stream (StreamSpec)
StreamCap == 3

\* the clients that connect to the server
MaxConns == 2
\* calls of metrics_inc_submit made while the reporter runs (MetricsSpec)
MaxSubmits == 3

(* ------------------------------ threads ------------------------------- *)

\* the thread running main: it accepts, submits and destroys the pool
Main == "main"
\* the worker threads threadpool_create starts
Workers == {"w1", "w2"}
\* further threads that call threadpool_submit (PoolSpec)
Extras == {"p1", "p2"}
Producers == {Main} \cup Extras
Threads == Workers \cup Producers
NoThread == "none"

(* ------------------------------- jobs --------------------------------- *)

\* job_t; main and threadpool_submit always set priority to 0
Job(fd, est, arr) ==
  [client_fd |-> fd, est_cost |-> est, priority |-> 0, arrival_ms |-> arr]

\* a job slot as calloc leaves it
ZeroJob == Job(0, 0, 0)

(* --------------------------- FIFO scheduler --------------------------- *)

scheduler_fifo_create(capacity) ==
  [kind |-> "fifo", arr |-> [i \in 0..(capacity - 1) |-> ZeroJob],
   capacity |-> capacity, head |-> 0, tail |-> 0, count |-> 0]

\* fifo_push without its test for a full ring
fifo_push_unchecked(st, job) ==
  [ret |-> 0,
   st |-> [st EXCEPT !.arr[st.tail] = job,
                     !.tail = (st.tail + 1) % st.capacity,
                     !.count = st.count + 1]]

\* fifo_push that never advances tail
fifo_push_keep_tail(st, job) ==
  IF st.count = st.capacity
  THEN [ret |-> -1, st |-> st]
  ELSE [ret |-> 0,
        st |-> [st EXCEPT !.arr[st.tail] = job,
                          !.count = st.count + 1]]

fifo_push(st, job) ==
  IF st.count = st.capacity
  THEN [ret |-> -1, st |-> st]
  ELSE [ret |-> 0,
        st |-> [st EXCEPT !.arr[st.tail] = job,
                          !.tail = (st.tail + 1) % st.capacity,
                          !.count = st.count + 1]]

\* fifo_pop taking the newest job, at the tail, instead of the oldest
fifo_pop_newest(st) ==
  IF st.count = 0
  THEN [ret |-> -1, st |-> st, out |-> ZeroJob]
  ELSE LET last == (st.tail + st.capacity - 1) % st.capacity IN
       [ret |-> 0,
        st |-> [st EXCEPT !.tail = last, !.count = st.count - 1],
        out |-> st.arr[last]]

\* fifo_pop that does not advance head
fifo_pop_keep_head(st) ==
  IF st.count = 0
  THEN [ret |-> -1, st |-> st, out |-> ZeroJob]
  ELSE [ret |-> 0,
        st |-> [st EXCEPT !.count = st.count - 1],
        out |-> st.arr[st.head]]

fifo_pop(st) ==
  IF st.count = 0
  THEN [ret |-> -1, st |-> st, out |-> ZeroJob]
  ELSE [ret |-> 0,
        st |-> [st EXCEPT !.head = (st.head + 1) % st.capacity,
                          !.count = st.count - 1],
        out |-> st.arr[st.head]]

(* ---------------------------- SJF scheduler --------------------------- *)

\* job_less breaking ties in favour of the later arrival
job_less_newest_first(a, b) ==
  IF a.est_cost < b.est_cost THEN TRUE
  ELSE IF a.est_cost > b.est_cost THEN FALSE
  ELSE a.arrival_ms > b.arrival_ms

job_less(a, b) ==
  IF a.est_cost < b.est_cost THEN TRUE
  ELSE IF a.est_cost > b.est_cost THEN FALSE
  ELSE a.arrival_ms < b.arrival_ms

\* swap_jobs copying one slot over the other
swap_jobs_overwrite(arr, i, j) == [arr EXCEPT ![i] = arr[j]]

swap_jobs(arr, i, j) == [arr EXCEPT ![i] = arr[j], ![j] = arr[i]]

\* sift_up leaving the new job in the last slot
sift_up_no_move(arr, idx) == arr

RECURSIVE sift_up(_, _)
sift_up(arr, idx) ==
  IF idx > 0
  THEN LET parent == (idx - 1) \div 2 IN
       IF job_less(arr[idx], arr[parent])
       THEN sift_up(swap_jobs(arr, idx, parent), parent)
       ELSE arr
  ELSE arr

\* sift_down that never looks at the right child
RECURSIVE sift_down_left_only(_, _, _)
sift_down_left_only(arr, n, idx) ==
  LET l == idx * 2 + 1
      smallest == IF l < n /\ job_less(arr[l], arr[idx]) THEN l ELSE idx
  IN IF smallest = idx
     THEN arr
     ELSE sift_down_left_only(swap_jobs(arr, idx, smallest), n, smallest)

RECURSIVE sift_down(_, _, _)
sift_down(arr, n, idx) ==
  LET l == idx * 2 + 1
      r == l + 1
      s1 == IF l < n /\ job_less(arr[l], arr[idx]) THEN l ELSE idx
      smallest == IF r < n /\ job_less(arr[r], arr[s1]) THEN r ELSE s1
  IN IF smallest = idx
     THEN arr
     ELSE sift_down(swap_jobs(arr, idx, smallest), n, smallest)

scheduler_sjf_create(capacity) ==
  [kind |-> "sjf", arr |-> [i \in 0..(capacity - 1) |-> ZeroJob],
   capacity |-> capacity, count |-> 0]

\* sjf_push that stores the job without counting it
sjf_push_keep_count(st, job) ==
  IF st.count = st.capacity
  THEN [ret |-> -1, st |-> st]
  ELSE [ret |-> 0,
        st |-> [st EXCEPT !.arr = sift_up([st.arr EXCEPT ![st.count] = job],
                                          st.count)]]

sjf_push(st, job) ==
  IF st.count = st.capacity
  THEN [ret |-> -1, st |-> st]
  ELSE [ret |-> 0,
        st |-> [st EXCEPT !.arr = sift_up([st.arr EXCEPT ![st.count] = job],
                                          st.count),
                          !.count = st.count + 1]]

\* sjf_pop reporting EMPTY one job early
sjf_pop_early_empty(st) ==
  IF st.count <= 1
  THEN [ret |-> -1, st |-> st, out |-> ZeroJob]
  ELSE LET n == st.count - 1 IN
       [ret |-> 0,
        st |-> [st EXCEPT !.count = n,
                          !.arr = sift_down([st.arr EXCEPT ![0] = st.arr[n]], n, 0)],
        out |-> st.arr[0]]

sjf_pop(st) ==
  IF st.count = 0
  THEN [ret |-> -1, st |-> st, out |-> ZeroJob]
  ELSE LET n == st.count - 1 IN
       [ret |-> 0,
        st |-> [st EXCEPT !.count = n,
                          !.arr = IF n > 0
                                  THEN sift_down([st.arr EXCEPT ![0] = st.arr[n]],
                                                 n, 0)
                                  ELSE st.arr],
        out |-> st.arr[0]]

(* ------------------- dispatch through struct scheduler ---------------- *)

\* s->push(s, job)
sched_push(st, job) ==
  IF st.kind = "fifo" THEN fifo_push(st, job) ELSE sjf_push(st, job)

\* s->pop(s, &out)
sched_pop(st) ==
  IF st.kind = "fifo" THEN fifo_pop(st) ELSE sjf_pop(st)

(* ------------------------------- state -------------------------------- *)

VARIABLES
  pc,        \* where each thread stands in its code
  lock,      \* tp->lock: the thread holding it, or NoThread
  shutdown,  \* tp->shutdown
  sched,     \* *tp->sched: the state of the installed scheduler
  job,       \* each thread's local job_t (a worker's popped job, a producer's argument)
  result,    \* the value the last threadpool_submit_job of each producer returned
  stop,      \* the flag sigint_handler sets
  freed,     \* threadpool_destroy has freed the scheduler, the docroot and the pool
  nextFd,    \* the connection the next successful accept returns
  clock,     \* the last value now_ms returned
  handled,   \* history: calls of handle_client per client_fd
  closed,    \* history: calls of close per client_fd
  pushed,    \* history: the jobs pushed, in the order of the pushes
  popped,    \* history: the jobs popped, in the order of the pops
  retOk,     \* history: the client_fds whose threadpool_submit_job returned 0
  okBefore,  \* history: the pairs <<a, b>> of client_fds where the submission of a had
             \* returned 0 when that of b was called, until a is popped
  lastOp,    \* the last scheduler call: its kind, its return value, count before it
  atShutdown, \* history: whether jobs were queued, and in workers' hands, when shutdown was set
  hpc,       \* where the connection of HttpSpec stands: accepted, in handle_client, returned, closed
  served,    \* handle_client: served
  req,       \* the bytes the last read or peek on the connection returned
  resp,      \* the response the last pass through the loop of handle_client sent
  nresp,     \* history: responses sent on the connection
  hret,      \* the value handle_client returned
  fsLog,     \* history: the stat and open calls the last pass of handle_client made
  estLog,    \* the est_cost the acceptor computed, and the stat calls it made for it
  io,        \* what read, write_all and sendfile returned in the last pass of handle_client
  okSent,    \* history: a request on the connection was answered 200
  listening, \* server_fd is open
  conns,     \* the number of clients that have connected to the listening socket
  sent,      \* the client_fds whose client has sent bytes or closed its end
  metrics,   \* metrics_running and the counters of the submits and the pops
  reporter,  \* where metrics_thread stands: never started, in its loop, returned, joined
  shutLog,   \* history: the calls main made after threadpool_destroy returned
  afterStop, \* history: the accepts and the submits main made with stop set
  snap       \* the locals subs and subs0 of metrics_thread_fn and the line it printed last

httpVars == <<hpc, served, req, resp, nresp, hret, fsLog, estLog, io, okSent>>

srvVars == <<listening, conns, sent, metrics, reporter, shutLog, afterStop, snap>>

vars == <<pc, lock, shutdown, sched, job, result, stop, freed, nextFd, clock,
          handled, closed, pushed, popped, retOk, okBefore, lastOp, atShutdown,
          httpVars, srvVars>>

poolVars == <<pc, lock, shutdown, job, result, stop, freed, nextFd, clock,
              handled, closed, retOk, okBefore>>

Fds == 1..MaxJobs

NoOp == [op |-> "none", ret |-> 0, before |-> 0]

\* no response
NoResp == [status |-> 0, connection |-> ""]

\* the static counters and metrics_running of metrics.c before metrics_init
NoMetrics ==
  [running |-> 0, submits_total |-> 0, submits_est0 |-> 0, pops_total |-> 0]

\* metrics_thread_fn has loaded nothing and printed nothing
NoLine == [subs |-> 0, subs0 |-> 0, est0_frac |-> 0, printed |-> FALSE]
NoSnap == [subs |-> 0, subs0 |-> 0, line |-> NoLine]

\* main has bound the listening socket and has not called metrics_init; no
\* client has connected
ServerStart ==
  /\ listening = TRUE
  /\ conns = 0
  /\ sent = {}
  /\ metrics = NoMetrics
  /\ reporter = "none"
  /\ shutLog = <<>>
  /\ afterStop = [accepted |-> 0, submitted |-> 0]
  /\ snap = NoSnap

\* no call of read, write_all or sendfile yet
NoIo == [read |-> "none", hdr |-> "none", body |-> "none"]

\* no connection is being looked at
HttpIdle ==
  /\ hpc = "off"
  /\ io = NoIo
  /\ okSent = FALSE
  /\ served = 0
  /\ req = <<>>
  /\ resp = NoResp
  /\ nresp = 0
  /\ hret = 0
  /\ fsLog = <<>>
  /\ estLog = [est |-> 0, fs |-> <<>>]


(* threads blocked in pthread_cond_wait on not_empty (workers) and on
   not_full (producers) *)
WaitingNotEmpty == {t \in Workers : pc[t] = "wait"}
WaitingNotFull == {t \in Producers : pc[t] = "s_wait"}

\* the workers that have popped a job and not yet closed its socket
Holding == {w \in Workers : pc[w] \in {"handle", "close", "dhandle", "dclose"}}

\* the client_fds popped so far
PoppedFds == {popped[i].client_fd : i \in 1..Len(popped)}

\* pthread_cond_signal: one of the waiting threads, if any, stops waiting
SignalChoices(waiting) == IF waiting = {} THEN {NoThread} ELSE waiting

Wake(pcf, t, to) == IF t = NoThread THEN pcf ELSE [pcf EXCEPT ![t] = to]

(* ------------------------------ worker_main --------------------------- *)

\* pthread_mutex_lock at the top of the outer loop, after a job, in the drain
\* loop, and on return from pthread_cond_wait
worker_lock(w) ==
  /\ pc[w] \in {"lock", "woken", "dlock"}
  /\ lock = NoThread
  /\ lock' = w
  /\ pc' = [pc EXCEPT ![w] = IF pc[w] = "dlock" THEN "drain" ELSE "try"]
  /\ UNCHANGED <<shutdown, sched, job, result, stop, freed, nextFd, clock,
                 handled, closed, pushed, popped, retOk, okBefore, lastOp, atShutdown>>
  /\ UNCHANGED <<httpVars, srvVars>>

\* worker_main leaving as soon as it sees shutdown set, without popping
worker_try_exit_at_once(w) ==
  /\ pc[w] = "try"
  /\ lock = w
  /\ IF shutdown = 1
     THEN /\ pc' = [pc EXCEPT ![w] = "done"]
          /\ UNCHANGED <<sched, job, popped, okBefore>>
     ELSE LET r == sched_pop(sched) IN
          IF r.ret = 0
          THEN \E t \in SignalChoices(WaitingNotFull) :
                 /\ sched' = r.st
                 /\ job' = [job EXCEPT ![w] = r.out]
                 /\ popped' = Append(popped, r.out)
                 /\ okBefore' = {e \in okBefore : e[1] # r.out.client_fd}
                 /\ pc' = Wake([pc EXCEPT ![w] = "handle"], t, "s_woken")
          ELSE /\ pc' = [pc EXCEPT ![w] = "wait"]
               /\ UNCHANGED <<sched, job, popped, okBefore>>
  /\ lock' = NoThread
  /\ UNCHANGED <<shutdown, result, stop, freed, nextFd, clock, handled, closed,
                 pushed, retOk, lastOp, atShutdown>>
  /\ UNCHANGED <<httpVars, srvVars>>

\* worker_main returning when it finds the scheduler empty, shutdown or not
worker_try_exit_when_empty(w) ==
  /\ pc[w] = "try"
  /\ lock = w
  /\ LET r == sched_pop(sched) IN
     IF r.ret = 0
     THEN \E t \in SignalChoices(WaitingNotFull) :
            /\ sched' = r.st
            /\ job' = [job EXCEPT ![w] = r.out]
            /\ popped' = Append(popped, r.out)
            /\ okBefore' = {e \in okBefore : e[1] # r.out.client_fd}
            /\ pc' = Wake([pc EXCEPT ![w] = "handle"], t, "s_woken")
            /\ lock' = NoThread
     ELSE /\ pc' = [pc EXCEPT ![w] = "done"]
          /\ lock' = NoThread
          /\ UNCHANGED <<sched, job, popped, okBefore>>
  /\ UNCHANGED <<shutdown, result, stop, freed, nextFd, clock, handled, closed,
                 pushed, retOk, lastOp, atShutdown>>
  /\ UNCHANGED <<httpVars, srvVars>>

\* worker_main keeping the lock while it handles the job it popped
worker_try_keep_lock(w) ==
  /\ pc[w] = "try"
  /\ lock = w
  /\ LET r == sched_pop(sched) IN
     IF r.ret = 0
     THEN \E t \in SignalChoices(WaitingNotFull) :
            /\ sched' = r.st
            /\ job' = [job EXCEPT ![w] = r.out]
            /\ popped' = Append(popped, r.out)
            /\ okBefore' = {e \in okBefore : e[1] # r.out.client_fd}
            /\ pc' = Wake([pc EXCEPT ![w] = "handle"], t, "s_woken")
            /\ UNCHANGED lock
     ELSE IF shutdown = 1
     THEN /\ pc' = [pc EXCEPT ![w] = "after"]
          /\ UNCHANGED <<sched, job, popped, okBefore, lock>>
     ELSE /\ pc' = [pc EXCEPT ![w] = "wait"]
          /\ lock' = NoThread
          /\ UNCHANGED <<sched, job, popped, okBefore>>
  /\ UNCHANGED <<shutdown, result, stop, freed, nextFd, clock, handled, closed,
                 pushed, retOk, lastOp, atShutdown>>
  /\ UNCHANGED <<httpVars, srvVars>>

\* one pass of the inner loop, under the lock: pop, else break on shutdown,
\* else pthread_cond_wait(not_empty)
worker_try(w) ==
  /\ pc[w] = "try"
  /\ lock = w
  /\ LET r == sched_pop(sched) IN
     IF r.ret = 0
     THEN \E t \in SignalChoices(WaitingNotFull) :
            /\ sched' = r.st
            /\ job' = [job EXCEPT ![w] = r.out]
            /\ popped' = Append(popped, r.out)
            /\ okBefore' = {e \in okBefore : e[1] # r.out.client_fd}
            /\ pc' = Wake([pc EXCEPT ![w] = "handle"], t, "s_woken")
            /\ lock' = NoThread
     ELSE IF shutdown = 1
     THEN /\ pc' = [pc EXCEPT ![w] = "after"]
          /\ UNCHANGED <<sched, job, popped, okBefore, lock>>
     ELSE /\ pc' = [pc EXCEPT ![w] = "wait"]
          /\ lock' = NoThread
          /\ UNCHANGED <<sched, job, popped, okBefore>>
  /\ UNCHANGED <<shutdown, result, stop, freed, nextFd, clock, handled, closed,
                 pushed, retOk, lastOp, atShutdown>>
  /\ UNCHANGED <<httpVars, srvVars>>

\* after the inner loop, still under the lock: on shutdown pop the leftovers
\* one by one and exit when there is none; otherwise unlock and start over
worker_drain(w) ==
  /\ pc[w] \in {"after", "drain"}
  /\ lock = w
  /\ IF pc[w] = "after" /\ shutdown = 0
     THEN /\ pc' = [pc EXCEPT ![w] = "lock"]
          /\ UNCHANGED <<sched, job, popped, okBefore>>
     ELSE LET r == sched_pop(sched) IN
          IF r.ret = 0
          THEN /\ sched' = r.st
               /\ job' = [job EXCEPT ![w] = r.out]
               /\ popped' = Append(popped, r.out)
               /\ okBefore' = {e \in okBefore : e[1] # r.out.client_fd}
               /\ pc' = [pc EXCEPT ![w] = "dhandle"]
          ELSE /\ pc' = [pc EXCEPT ![w] = "done"]
               /\ UNCHANGED <<sched, job, popped, okBefore>>
  /\ lock' = NoThread
  /\ UNCHANGED <<shutdown, result, stop, freed, nextFd, clock, handled, closed,
                 pushed, retOk, lastOp, atShutdown>>
  /\ UNCHANGED <<httpVars, srvVars>>

\* handle_client(job.client_fd, tp->docroot), outside the lock; it returns
worker_handle(w) ==
  /\ pc[w] \in {"handle", "dhandle"}
  /\ handled' = [handled EXCEPT ![job[w].client_fd] = @ + 1]
  /\ pc' = [pc EXCEPT ![w] = IF pc[w] = "handle" THEN "close" ELSE "dclose"]
  /\ UNCHANGED <<lock, shutdown, sched, job, result, stop, freed, nextFd, clock,
                 closed, pushed, popped, retOk, okBefore, lastOp, atShutdown>>
  /\ UNCHANGED <<httpVars, srvVars>>

\* close(job.client_fd)
worker_close(w) ==
  /\ pc[w] \in {"close", "dclose"}
  /\ closed' = [closed EXCEPT ![job[w].client_fd] = @ + 1]
  /\ pc' = [pc EXCEPT ![w] = IF pc[w] = "close" THEN "lock" ELSE "dlock"]
  /\ UNCHANGED <<lock, shutdown, sched, job, result, stop, freed, nextFd, clock,
                 handled, pushed, popped, retOk, okBefore, lastOp, atShutdown>>
  /\ UNCHANGED <<httpVars, srvVars>>

(* ------------------------ threadpool_submit_job ----------------------- *)

\* the code that follows a producer's call: main goes back to the top of its
\* accept loop, another producer is ready for its next connection
AfterSubmit(p) == IF p = Main THEN "loop" ELSE "idle"

\* pthread_mutex_lock on entry and on return from pthread_cond_wait
submit_lock(p) ==
  /\ pc[p] \in {"s_lock", "s_woken"}
  /\ ~freed
  /\ lock = NoThread
  /\ lock' = p
  /\ pc' = [pc EXCEPT ![p] = "s_try"]
  /\ UNCHANGED <<shutdown, sched, job, result, stop, freed, nextFd, clock,
                 handled, closed, pushed, popped, retOk, okBefore, lastOp, atShutdown>>
  /\ UNCHANGED <<httpVars, srvVars>>

\* threadpool_submit_job returning 0 when the push is refused, without retry
submit_try_no_retry(p) ==
  /\ pc[p] = "s_try"
  /\ ~freed
  /\ lock = p
  /\ IF shutdown = 1
     THEN /\ result' = [result EXCEPT ![p] = -1]
          /\ pc' = [pc EXCEPT ![p] = "s_ret"]
          /\ UNCHANGED <<sched, pushed, retOk>>
     ELSE LET r == sched_push(sched, job[p]) IN
          \E t \in SignalChoices(WaitingNotEmpty) :
            /\ sched' = r.st
            /\ pushed' = IF r.ret = 0 THEN Append(pushed, job[p]) ELSE pushed
            /\ result' = [result EXCEPT ![p] = 0]
            /\ retOk' = retOk \cup {job[p].client_fd}
            /\ pc' = Wake([pc EXCEPT ![p] = "s_ret"], t, "woken")
  /\ lock' = NoThread
  /\ UNCHANGED <<shutdown, job, stop, freed, nextFd, clock, handled, closed,
                 popped, okBefore, lastOp, atShutdown>>
  /\ UNCHANGED <<httpVars, srvVars>>

\* threadpool_submit_job without its test of the shutdown flag
submit_try_ignore_shutdown(p) ==
  /\ pc[p] = "s_try"
  /\ ~freed
  /\ lock = p
  /\ LET r == sched_push(sched, job[p]) IN
     IF r.ret = 0
     THEN \E t \in SignalChoices(WaitingNotEmpty) :
            /\ sched' = r.st
            /\ pushed' = Append(pushed, job[p])
            /\ result' = [result EXCEPT ![p] = 0]
            /\ retOk' = retOk \cup {job[p].client_fd}
            /\ pc' = Wake([pc EXCEPT ![p] = "s_ret"], t, "woken")
     ELSE /\ pc' = [pc EXCEPT ![p] = "s_wait"]
          /\ UNCHANGED <<sched, pushed, result, retOk>>
  /\ lock' = NoThread
  /\ UNCHANGED <<shutdown, job, stop, freed, nextFd, clock, handled, closed,
                 popped, okBefore, lastOp, atShutdown>>
  /\ UNCHANGED <<httpVars, srvVars>>

\* threadpool_submit_job returning -1 when the scheduler is full
submit_try_fail_when_full(p) ==
  /\ pc[p] = "s_try"
  /\ ~freed
  /\ lock = p
  /\ IF shutdown = 1
     THEN /\ result' = [result EXCEPT ![p] = -1]
          /\ pc' = [pc EXCEPT ![p] = "s_ret"]
          /\ UNCHANGED <<sched, pushed, retOk>>
     ELSE LET r == sched_push(sched, job[p]) IN
          IF r.ret = 0
          THEN \E t \in SignalChoices(WaitingNotEmpty) :
                 /\ sched' = r.st
                 /\ pushed' = Append(pushed, job[p])
                 /\ result' = [result EXCEPT ![p] = 0]
                 /\ retOk' = retOk \cup {job[p].client_fd}
                 /\ pc' = Wake([pc EXCEPT ![p] = "s_ret"], t, "woken")
          ELSE /\ result' = [result EXCEPT ![p] = -1]
               /\ pc' = [pc EXCEPT ![p] = "s_ret"]
               /\ UNCHANGED <<sched, pushed, retOk>>
  /\ lock' = NoThread
  /\ UNCHANGED <<shutdown, job, stop, freed, nextFd, clock, handled, closed,
                 popped, okBefore, lastOp, atShutdown>>
  /\ UNCHANGED <<httpVars, srvVars>>

\* threadpool_submit_job pushing without pthread_cond_signal(&tp->not_empty)
submit_try_no_signal(p) ==
  /\ pc[p] = "s_try"
  /\ ~freed
  /\ lock = p
  /\ IF shutdown = 1
     THEN /\ result' = [result EXCEPT ![p] = -1]
          /\ pc' = [pc EXCEPT ![p] = "s_ret"]
          /\ UNCHANGED <<sched, pushed, retOk>>
     ELSE LET r == sched_push(sched, job[p]) IN
          IF r.ret = 0
          THEN /\ sched' = r.st
               /\ pushed' = Append(pushed, job[p])
               /\ result' = [result EXCEPT ![p] = 0]
               /\ retOk' = retOk \cup {job[p].client_fd}
               /\ pc' = [pc EXCEPT ![p] = "s_ret"]
          ELSE /\ pc' = [pc EXCEPT ![p] = "s_wait"]
               /\ UNCHANGED <<sched, pushed, result, retOk>>
  /\ lock' = NoThread
  /\ UNCHANGED <<shutdown, job, stop, freed, nextFd, clock, handled, closed,
                 popped, okBefore, lastOp, atShutdown>>
  /\ UNCHANGED <<httpVars, srvVars>>

\* one pass of the loop, under the lock: return -1 on shutdown, else push and
\* return 0, else pthread_cond_wait(not_full)
submit_try(p) ==
  /\ pc[p] = "s_try"
  /\ ~freed
  /\ lock = p
  /\ IF shutdown = 1
     THEN /\ result' = [result EXCEPT ![p] = -1]
          /\ pc' = [pc EXCEPT ![p] = "s_ret"]
          /\ UNCHANGED <<sched, pushed, retOk>>
     ELSE LET r == sched_push(sched, job[p]) IN
          IF r.ret = 0
          THEN \E t \in SignalChoices(WaitingNotEmpty) :
                 /\ sched' = r.st
                 /\ pushed' = Append(pushed, job[p])
                 /\ result' = [result EXCEPT ![p] = 0]
                 /\ retOk' = retOk \cup {job[p].client_fd}
                 /\ pc' = Wake([pc EXCEPT ![p] = "s_ret"], t, "woken")
          ELSE /\ pc' = [pc EXCEPT ![p] = "s_wait"]
               /\ UNCHANGED <<sched, pushed, result, retOk>>
  /\ lock' = NoThread
  /\ UNCHANGED <<shutdown, job, stop, freed, nextFd, clock, handled, closed,
                 popped, okBefore, lastOp, atShutdown>>
  /\ UNCHANGED <<httpVars, srvVars>>

\* the caller closing the socket whatever threadpool_submit_job returned
submit_ret_always_close(p) ==
  /\ pc[p] = "s_ret"
  /\ ~freed
  /\ closed' = [closed EXCEPT ![job[p].client_fd] = @ + 1]
  /\ pc' = [pc EXCEPT ![p] = AfterSubmit(p)]
  /\ UNCHANGED <<lock, shutdown, sched, job, result, stop, freed, nextFd, clock,
                 handled, pushed, popped, retOk, okBefore, lastOp, atShutdown>>
  /\ UNCHANGED <<httpVars, srvVars>>

\* the caller's test of the return value: close(client_fd) on failure
submit_ret(p) ==
  /\ pc[p] = "s_ret"
  /\ ~freed
  /\ closed' = IF result[p] # 0
               THEN [closed EXCEPT ![job[p].client_fd] = @ + 1]
               ELSE closed
  /\ pc' = [pc EXCEPT ![p] = AfterSubmit(p)]
  /\ UNCHANGED <<lock, shutdown, sched, job, result, stop, freed, nextFd, clock,
                 handled, pushed, popped, retOk, okBefore, lastOp, atShutdown>>
  /\ UNCHANGED <<httpVars, srvVars>>

\* pthread_cond_wait may return without a signal
spurious_wakeup(t) ==
  /\ pc[t] \in {"wait", "s_wait"}
  /\ ~freed
  /\ pc' = [pc EXCEPT ![t] = IF pc[t] = "wait" THEN "woken" ELSE "s_woken"]
  /\ UNCHANGED <<lock, shutdown, sched, job, result, stop, freed, nextFd, clock,
                 handled, closed, pushed, popped, retOk, okBefore, lastOp, atShutdown>>
  /\ UNCHANGED <<httpVars, srvVars>>

(* -------------------------------- main -------------------------------- *)

\* the monotonic clock in milliseconds: each connection is accepted in a later
\* millisecond than the one before (equal timestamps are exercised on the
\* scheduler alone, in SchedSpec)
now_ms == clock + 1

\* the estimates of main: 0 when the peek or the stat gives none, else the size
\* of the file the request names
Ests == {0, MaxEst}

\* a connection is accepted and its job built: est_cost from the peek,
\* arrival_ms from now_ms; threadpool_submit_job is called with it
NewJob(p, est, arr) ==
  /\ nextFd <= MaxJobs
  /\ job' = [job EXCEPT ![p] = Job(nextFd, est, arr)]
  /\ okBefore' = okBefore \cup {<<a, nextFd>> : a \in retOk \ PoppedFds}
  /\ nextFd' = nextFd + 1
  /\ clock' = arr

\* a loop that goes on to accept whatever stop is
main_loop_ignore_stop ==
  /\ pc[Main] = "loop"
  /\ pc' = [pc EXCEPT ![Main] = "accept"]
  /\ UNCHANGED <<lock, shutdown, sched, job, result, stop, freed, nextFd, clock,
                 handled, closed, pushed, popped, retOk, okBefore, lastOp, atShutdown>>
  /\ UNCHANGED <<httpVars, srvVars>>

\* while (!stop)
main_loop ==
  /\ pc[Main] = "loop"
  /\ pc' = [pc EXCEPT ![Main] = IF stop THEN "d_lock" ELSE "accept"]
  /\ UNCHANGED <<lock, shutdown, sched, job, result, stop, freed, nextFd, clock,
                 handled, closed, pushed, popped, retOk, okBefore, lastOp, atShutdown>>
  /\ UNCHANGED <<httpVars, srvVars>>

\* accept returns a connection, which is peeked and submitted, or fails with
\* an error other than EINTR, which ends the loop
main_accept ==
  /\ pc[Main] = "accept"
  /\ \E outcome \in {"connection", "error"} :
       IF outcome = "connection"
       THEN /\ \E est \in Ests : NewJob(Main, est, now_ms)
            /\ pc' = [pc EXCEPT ![Main] = "s_lock"]
       ELSE /\ pc' = [pc EXCEPT ![Main] = "d_lock"]
            /\ UNCHANGED <<job, okBefore, nextFd, clock>>
  /\ UNCHANGED <<lock, shutdown, sched, result, stop, freed, handled, closed,
                 pushed, popped, retOk, lastOp, atShutdown>>
  /\ UNCHANGED <<httpVars, srvVars>>

\* SIGINT: sigint_handler sets stop; an accept the signal interrupts returns
\* EINTR or is restarted
sigint_handler ==
  /\ ~stop
  /\ pc[Main] # "m_done"
  /\ stop' = TRUE
  /\ \E interrupted \in BOOLEAN :
       pc' = IF pc[Main] = "accept" /\ interrupted
             THEN [pc EXCEPT ![Main] = "loop"]
             ELSE pc
  /\ UNCHANGED <<lock, shutdown, sched, job, result, freed, nextFd, clock,
                 handled, closed, pushed, popped, retOk, okBefore, lastOp, atShutdown>>
  /\ UNCHANGED <<httpVars, srvVars>>

(* -------------------------- threadpool_destroy ------------------------ *)

\* pthread_mutex_lock
destroy_lock ==
  /\ pc[Main] = "d_lock"
  /\ lock = NoThread
  /\ lock' = Main
  /\ pc' = [pc EXCEPT ![Main] = "d_set"]
  /\ UNCHANGED <<shutdown, sched, job, result, stop, freed, nextFd, clock,
                 handled, closed, pushed, popped, retOk, okBefore, lastOp, atShutdown>>
  /\ UNCHANGED <<httpVars, srvVars>>

\* shutdown = 1; pthread_cond_broadcast(not_empty); pthread_mutex_unlock
destroy_set ==
  /\ pc[Main] = "d_set"
  /\ lock = Main
  /\ shutdown' = 1
  /\ pc' = [t \in Threads |->
              IF t = Main THEN "d_join"
              ELSE IF t \in WaitingNotEmpty THEN "woken"
              ELSE pc[t]]
  /\ lock' = NoThread
  /\ atShutdown' = [queued |-> sched.count > 0, inflight |-> Holding # {}]
  /\ UNCHANGED <<sched, job, result, stop, freed, nextFd, clock, handled, closed,
                 pushed, popped, retOk, okBefore, lastOp>>
  /\ UNCHANGED <<httpVars, srvVars>>

\* threadpool_destroy going on to free without joining the workers
destroy_join_no_wait ==
  /\ pc[Main] = "d_join"
  /\ pc' = [pc EXCEPT ![Main] = "d_free"]
  /\ UNCHANGED <<lock, shutdown, sched, job, result, stop, freed, nextFd, clock,
                 handled, closed, pushed, popped, retOk, okBefore, lastOp, atShutdown>>
  /\ UNCHANGED <<httpVars, srvVars>>

\* the pthread_join loop: it ends when every worker has returned, a join
\* that failed for want of a thread left aside
destroy_join ==
  /\ pc[Main] = "d_join"
  /\ \A w \in Workers : pc[w] \in {"done", "misjoined"}
  /\ pc' = [pc EXCEPT ![Main] = "d_free"]
  /\ UNCHANGED <<lock, shutdown, sched, job, result, stop, freed, nextFd, clock,
                 handled, closed, pushed, popped, retOk, okBefore, lastOp, atShutdown>>
  /\ UNCHANGED <<httpVars, srvVars>>

\* sched->destroy, the frees and the destruction of the mutex and the
\* condition variables; then main goes on to metrics_shutdown and returns
destroy_free ==
  /\ pc[Main] = "d_free"
  /\ freed' = TRUE
  /\ pc' = [pc EXCEPT ![Main] = "m_done"]
  /\ UNCHANGED <<lock, shutdown, sched, job, result, stop, nextFd, clock,
                 handled, closed, pushed, popped, retOk, okBefore, lastOp, atShutdown>>
  /\ UNCHANGED <<httpVars, srvVars>>

(* ------------------- producers other than main (PoolSpec) ------------- *)

\* another thread takes a connection and calls threadpool_submit with its
\* client_fd (est_cost 0, arrival_ms now), closing the socket when the call
\* fails, as main does
extra_submit(p) ==
  /\ pc[p] = "idle"
  /\ ~freed
  /\ NewJob(p, 0, now_ms)
  /\ pc' = [pc EXCEPT ![p] = "s_lock"]
  /\ UNCHANGED <<lock, shutdown, sched, result, stop, freed, handled, closed,
                 pushed, popped, retOk, lastOp, atShutdown>>
  /\ UNCHANGED <<httpVars, srvVars>>

(* ---------------------------- specifications -------------------------- *)

\* the schedulers a pool can hold when main enters its accept loop: the FIFO
\* scheduler of threadpool_create or the SJF scheduler main installs, empty
FifoScheds == {scheduler_fifo_create(c) : c \in 1..Capacity}
SjfScheds == {scheduler_sjf_create(c) : c \in 1..Capacity}

\* the pool is created, the workers for which pthread_create succeeded are
\* started and a scheduler is installed
InitPoolWith(started, mainPc, extraPc, scheds) ==
  /\ pc = [t \in Threads |->
             IF t \in started THEN "lock"
             ELSE IF t \in Workers THEN "unstarted"
             ELSE IF t = Main THEN mainPc ELSE extraPc]
  /\ lock = NoThread
  /\ shutdown = 0
  /\ sched \in scheds
  /\ job = [t \in Threads |-> ZeroJob]
  /\ result = [p \in Producers |-> 0]
  /\ stop = FALSE
  /\ freed = FALSE
  /\ nextFd = 1
  /\ clock = 0
  /\ handled = [f \in Fds |-> 0]
  /\ closed = [f \in Fds |-> 0]
  /\ pushed = <<>>
  /\ popped = <<>>
  /\ retOk = {}
  /\ okBefore = {}
  /\ lastOp = NoOp
  /\ atShutdown = [queued |-> FALSE, inflight |-> FALSE]
  /\ HttpIdle
  /\ ServerStart

\* the pool with every worker started
InitPool(mainPc, extraPc, scheds) ==
  InitPoolWith(Workers, mainPc, extraPc, scheds)

\* the server: main is the only producer, and enters its accept loop
Init == InitPool("loop", "off", FifoScheds \cup SjfScheds)

Next ==
  \/ \E w \in Workers : worker_lock(w)
  \/ \E w \in Workers : worker_try(w)
  \/ \E w \in Workers : worker_drain(w)
  \/ \E w \in Workers : worker_handle(w)
  \/ \E w \in Workers : worker_close(w)
  \/ \E p \in Producers : submit_lock(p)
  \/ \E p \in Producers : submit_try(p)
  \/ \E p \in Producers : submit_ret(p)
  \/ \E t \in Threads : spurious_wakeup(t)
  \/ main_loop
  \/ main_accept
  \/ sigint_handler
  \/ destroy_lock
  \/ destroy_set
  \/ destroy_join
  \/ destroy_free

Spec == Init /\ [][Next]_vars

\* the pool used as a library, with the FIFO scheduler threadpool_create
\* installs: the threads of Extras submit concurrently, and main calls
\* threadpool_destroy at some moment
PoolInit == InitPool("d_lock", "idle", FifoScheds)

PoolNext ==
  \/ \E w \in Workers : worker_lock(w)
  \/ \E w \in Workers : worker_try(w)
  \/ \E w \in Workers : worker_drain(w)
  \/ \E w \in Workers : worker_handle(w)
  \/ \E w \in Workers : worker_close(w)
  \/ \E p \in Extras : extra_submit(p)
  \/ \E p \in Producers : submit_lock(p)
  \/ \E p \in Producers : submit_try(p)
  \/ \E p \in Producers : submit_ret(p)
  \/ \E t \in Threads : spurious_wakeup(t)
  \/ destroy_lock
  \/ destroy_set
  \/ destroy_join
  \/ destroy_free

PoolSpec == PoolInit /\ [][PoolNext]_vars

(* ------------------ the scheduler on its own (SchedSpec) -------------- *)

\* the jobs handed to push: the n-th pushed job carries client_fd n, an
\* est_cost of 0 or MaxEst and an arrival_ms of 0 or MaxArr, in any order
SchedJobs ==
  {Job(Len(pushed) + 1, est, arr) : est \in {0, MaxEst}, arr \in {0, MaxArr}}

\* s->push(s, job), as the pool calls it under its lock
sched_do_push(j) ==
  /\ Len(pushed) < MaxOps
  /\ LET r == sched_push(sched, j) IN
       /\ sched' = r.st
       /\ lastOp' = [op |-> "push", ret |-> r.ret, before |-> sched.count]
       /\ pushed' = IF r.ret = 0 THEN Append(pushed, j) ELSE pushed
  /\ UNCHANGED <<poolVars, popped, atShutdown>>
  /\ UNCHANGED <<httpVars, srvVars>>

\* s->pop(s, &out), as the pool calls it under its lock
sched_do_pop ==
  /\ LET r == sched_pop(sched) IN
       /\ sched' = r.st
       /\ lastOp' = [op |-> "pop", ret |-> r.ret, before |-> sched.count]
       /\ popped' = IF r.ret = 0 THEN Append(popped, r.out) ELSE popped
  /\ UNCHANGED <<poolVars, pushed, atShutdown>>
  /\ UNCHANGED <<httpVars, srvVars>>

\* a scheduler as its factory returns it; no thread runs
SchedInit ==
  /\ sched \in {scheduler_fifo_create(c) : c \in 1..SchedCap}
               \cup {scheduler_sjf_create(c) : c \in 1..SchedCap}
  /\ lastOp = NoOp
  /\ pushed = <<>>
  /\ popped = <<>>
  /\ pc = [t \in Threads |-> "off"]
  /\ lock = NoThread
  /\ shutdown = 0
  /\ job = [t \in Threads |-> ZeroJob]
  /\ result = [p \in Producers |-> 0]
  /\ stop = FALSE
  /\ freed = FALSE
  /\ nextFd = 1
  /\ clock = 0
  /\ handled = [f \in Fds |-> 0]
  /\ closed = [f \in Fds |-> 0]
  /\ retOk = {}
  /\ okBefore = {}
  /\ atShutdown = [queued |-> FALSE, inflight |-> FALSE]
  /\ HttpIdle
  /\ ServerStart

SchedNext ==
  \/ \E j \in SchedJobs : sched_do_push(j)
  \/ sched_do_pop

SchedSpec == SchedInit /\ [][SchedNext]_vars

(* ------------ an endless stream of jobs of one cost (StreamSpec) ------- *)

\* the jobs a scheduler holds
QueuedJobs(st) ==
  IF st.kind = "fifo"
  THEN {st.arr[(st.head + i) % st.capacity] : i \in 0..(st.count - 1)}
  ELSE {st.arr[i] : i \in 0..(st.count - 1)}

QueuedFds == {j.client_fd : j \in QueuedJobs(sched)}

\* the descriptors of the stream: accept returns the lowest descriptor that is
\* not open, and a queued connection is open
StreamFds == 1..(StreamCap + 1)

\* arrival_ms is kept relative to the oldest queued job (job_less compares
\* arrival_ms values only with each other): after a pop the timestamps and
\* the clock are moved back by the arrival_ms of the oldest job left
Rebase(st, by) ==
  [st EXCEPT !.arr = [i \in DOMAIN st.arr |->
                        IF i < st.count
                        THEN [st.arr[i] EXCEPT !.arrival_ms = @ - by]
                        ELSE st.arr[i]]]

\* main submits the next connection, at the cost every job of the stream has
stream_push ==
  /\ LET fd == CHOOSE f \in StreamFds \ QueuedFds :
                 \A g \in StreamFds \ QueuedFds : f <= g
         r == sched_push(sched, Job(fd, job[Main].est_cost, clock))
     IN sched' = r.st
  /\ UNCHANGED <<poolVars, pushed, popped, lastOp, atShutdown>>
  /\ UNCHANGED <<httpVars, srvVars>>

\* a worker pops
stream_pop ==
  /\ LET r == sched_pop(sched)
         left == {j.arrival_ms : j \in QueuedJobs(r.st)}
         by == IF left = {} THEN clock
               ELSE CHOOSE a \in left : \A b \in left : a <= b
     IN /\ sched' = Rebase(r.st, by)
        /\ clock' = clock - by
  /\ UNCHANGED <<pc, lock, shutdown, job, result, stop, freed, nextFd, handled,
                 closed, retOk, okBefore, pushed, popped, lastOp, atShutdown>>
  /\ UNCHANGED <<httpVars, srvVars>>

\* a millisecond passes while jobs are queued
stream_tick ==
  /\ sched.count > 0
  /\ clock < MaxAge
  /\ clock' = clock + 1
  /\ UNCHANGED <<pc, lock, shutdown, sched, job, result, stop, freed, nextFd,
                 handled, closed, retOk, okBefore, pushed, popped, lastOp,
                 atShutdown>>
  /\ UNCHANGED <<httpVars, srvVars>>

\* an SJF scheduler as its factory returns it, and the cost of the stream
StreamInit ==
  /\ sched \in {scheduler_sjf_create(c) : c \in 1..StreamCap}
  /\ job \in {[t \in Threads |-> IF t = Main THEN Job(0, e, 0) ELSE ZeroJob] :
                e \in Ests}
  /\ lastOp = NoOp
  /\ pushed = <<>>
  /\ popped = <<>>
  /\ pc = [t \in Threads |-> "off"]
  /\ lock = NoThread
  /\ shutdown = 0
  /\ result = [p \in Producers |-> 0]
  /\ stop = FALSE
  /\ freed = FALSE
  /\ nextFd = 1
  /\ clock = 0
  /\ handled = [f \in Fds |-> 0]
  /\ closed = [f \in Fds |-> 0]
  /\ retOk = {}
  /\ okBefore = {}
  /\ atShutdown = [queued |-> FALSE, inflight |-> FALSE]
  /\ HttpIdle
  /\ ServerStart

StreamNext ==
  \/ stream_push
  \/ stream_pop
  \/ stream_tick

\* the workers keep popping and time keeps passing
StreamSpec ==
  /\ StreamInit
  /\ [][StreamNext]_vars
  /\ WF_vars(stream_pop)
  /\ WF_vars(stream_tick)

(* ------------- replacing the scheduler of a live pool (SwapSpec) ------ *)

\* the producer of SwapSpec
SwapProducers == {"p1"}

\* the jobs of the old scheduler are popped one by one and pushed into the
\* new one
RECURSIVE Drain(_, _)
Drain(old, new) ==
  IF old.count = 0
  THEN new
  ELSE LET r == sched_pop(old) IN
       Drain(r.st, sched_push(new, r.out).st)

\* threadpool_set_scheduler: pthread_mutex_lock
set_scheduler_lock ==
  /\ pc[Main] = "x_lock"
  /\ lock = NoThread
  /\ lock' = Main
  /\ pc' = [pc EXCEPT ![Main] = "x_swap"]
  /\ UNCHANGED <<shutdown, sched, job, result, stop, freed, nextFd, clock,
                 handled, closed, pushed, popped, retOk, okBefore, lastOp, atShutdown>>
  /\ UNCHANGED <<httpVars, srvVars>>

\* threadpool_set_scheduler: the current scheduler is drained into the SJF
\* scheduler main created with the same queue_capacity, and tp->sched is set
\* to it
set_scheduler_swap ==
  /\ pc[Main] = "x_swap"
  /\ sched' = Drain(sched, scheduler_sjf_create(sched.capacity))
  /\ pc' = [pc EXCEPT ![Main] = "x_destroy"]
  /\ UNCHANGED <<lock, shutdown, job, result, stop, freed, nextFd, clock,
                 handled, closed, pushed, popped, retOk, okBefore, lastOp, atShutdown>>
  /\ UNCHANGED <<httpVars, srvVars>>

\* threadpool_set_scheduler: the old scheduler is destroyed
set_scheduler_destroy ==
  /\ pc[Main] = "x_destroy"
  /\ pc' = [pc EXCEPT ![Main] = "x_unlock"]
  /\ UNCHANGED <<lock, shutdown, sched, job, result, stop, freed, nextFd, clock,
                 handled, closed, pushed, popped, retOk, okBefore, lastOp, atShutdown>>
  /\ UNCHANGED <<httpVars, srvVars>>

\* threadpool_set_scheduler: pthread_mutex_unlock; main goes on to
\* threadpool_destroy at some moment
set_scheduler_unlock ==
  /\ pc[Main] = "x_unlock"
  /\ lock' = NoThread
  /\ pc' = [pc EXCEPT ![Main] = "d_lock"]
  /\ UNCHANGED <<shutdown, sched, job, result, stop, freed, nextFd, clock,
                 handled, closed, pushed, popped, retOk, okBefore, lastOp, atShutdown>>
  /\ UNCHANGED <<httpVars, srvVars>>

\* a pool with the FIFO scheduler of threadpool_create, in use by a producer
\* and the workers when main replaces the scheduler
SwapInit == InitPool("x_lock", "idle", FifoScheds)

SwapNext ==
  \/ \E w \in Workers : worker_lock(w)
  \/ \E w \in Workers : worker_try(w)
  \/ \E w \in Workers : worker_drain(w)
  \/ \E w \in Workers : worker_handle(w)
  \/ \E w \in Workers : worker_close(w)
  \/ \E p \in SwapProducers : extra_submit(p)
  \/ \E p \in Producers : submit_lock(p)
  \/ \E p \in Producers : submit_try(p)
  \/ \E p \in Producers : submit_ret(p)
  \/ \E t \in Threads : spurious_wakeup(t)
  \/ set_scheduler_lock
  \/ set_scheduler_swap
  \/ set_scheduler_destroy
  \/ set_scheduler_unlock
  \/ destroy_lock
  \/ destroy_set
  \/ destroy_join
  \/ destroy_free

SwapSpec == SwapInit /\ [][SwapNext]_vars

(* ------------- one connection through handle_client (HttpSpec) -------- *)

\* The bytes of a request are a sequence of lines, the request line first;
\* a line is the sequence of its words, a word a string without white space.

MAX_KEEPALIVE_REQUESTS == 8

Methods == {"GET", "HEAD", "POST"}
Paths == {"/", "/a", "/d", "/n", "/../a", "/a..b"}
Versions == {"HTTP/1.0", "HTTP/1.1"}

\* the request lines a client sends: nothing, a method alone, a method and a
\* path, or a method, a path and a version
RequestLines ==
  {<<>>, <<"GET">>}
    \cup {<<m, p>> : m \in Methods, p \in Paths}
    \cup {<<m, p, v>> : m \in Methods, p \in Paths, v \in Versions}

\* the header lines a client sends
HeaderLines ==
  {<<"Connection:", "close">>, <<"connection:", "CLOSE">>,
   <<"Connection:", "keep-alive">>, <<"CONNECTION:", "Keep-Alive">>,
   <<"X-Connection:", "close">>, <<"Host:", "a">>}

\* up to two header lines, in any order
HeaderBlocks ==
  {<<>>} \cup {<<h>> : h \in HeaderLines}
         \cup {gh \in HeaderLines \X HeaderLines : gh[1] # gh[2]}

\* what a read or a recv of the request bytes can return
Bufs == {<<l>> \o hs : l \in RequestLines, hs \in HeaderBlocks}

\* the characters of a word; a word without a dot is kept whole
Chars(w) ==
  CASE w = "/" -> <<"/">>
    [] w = "/a" -> <<"/", "a">>
    [] w = "/d" -> <<"/", "d">>
    [] w = "/n" -> <<"/", "n">>
    [] w = "/../a" -> <<"/", ".", ".", "/", "a">>
    [] w = "/a..b" -> <<"/", "a", ".", ".", "b">>
    [] w = "HTTP/1.0" -> <<"HTTP/1", ".", "0">>
    [] w = "HTTP/1.1" -> <<"HTTP/1", ".", "1">>
    [] OTHER -> <<w>>

\* tolower on a word, as strcasestr applies it
tolower(w) ==
  CASE w \in {"Connection:", "CONNECTION:"} -> "connection:"
    [] w = "X-Connection:" -> "x-connection:"
    [] w = "Host:" -> "host:"
    [] w = "CLOSE" -> "close"
    [] w = "Keep-Alive" -> "keep-alive"
    [] w = "GET" -> "get"
    [] w = "HEAD" -> "head"
    [] w = "POST" -> "post"
    [] w = "HTTP/1.0" -> "http/1.0"
    [] w = "HTTP/1.1" -> "http/1.1"
    [] OTHER -> w

\* the words of the bytes in order: %s skips white space, line ends included
RECURSIVE Words(_)
Words(buf) ==
  IF buf = <<>> THEN <<>> ELSE Head(buf) \o Words(Tail(buf))

\* sscanf(buf, "%15s %1023s %15s", method, path, version); version is ""
\* beforehand
sscanf_request(buf) ==
  LET ws == Words(buf) IN
    [n |-> IF Len(ws) > 3 THEN 3 ELSE Len(ws),
     method |-> IF Len(ws) >= 1 THEN ws[1] ELSE "",
     path |-> IF Len(ws) >= 2 THEN ws[2] ELSE "",
     version |-> IF Len(ws) >= 3 THEN ws[3] ELSE ""]

\* strstr(s, "..") != NULL, on the characters of s
HasDotDot(s) ==
  \E i \in 1..(Len(s) - 1) : s[i] = "." /\ s[i + 1] = "."

\* sanitize_path that only looks at the start of the path
sanitize_path_leading_only(path) ==
  LET s == Chars(path) IN
    ~(Len(s) >= 2 /\ s[1] = "." /\ s[2] = ".")

sanitize_path(path) == ~HasDotDot(Chars(path))

\* strcasestr(buf, "\r\n" needle) || strcasestr(buf, "\n" needle): a line
\* after the first starts with the words of needle, whatever the case (no
\* word of HeaderLines extends another)
HeaderMatch(buf, needle) ==
  \E k \in 2..Len(buf) :
    /\ Len(buf[k]) >= Len(needle)
    /\ \A i \in 1..Len(needle) : tolower(buf[k][i]) = needle[i]

\* the connection decision with the two header tests swapped
should_close_keep_first(buf, version) ==
  IF HeaderMatch(buf, <<"connection:", "keep-alive">>) THEN FALSE
  ELSE IF HeaderMatch(buf, <<"connection:", "close">>) THEN TRUE
  ELSE version = "HTTP/1.0"

\* should_close as handle_client computes it
should_close(buf, version) ==
  IF HeaderMatch(buf, <<"connection:", "close">>) THEN TRUE
  ELSE IF HeaderMatch(buf, <<"connection:", "keep-alive">>) THEN FALSE
  ELSE version = "HTTP/1.0"

\* what the file system and the socket answer during one request: whether
\* the directory /d holds an index.html, and whether malloc, open, the
\* write_all of the response header and the sendfile of the body succeed; at
\* most one of malloc, open and sendfile fails, since a pass in which one of
\* them fails does not call those that come after it
Envs ==
  {e \in [idx : BOOLEAN, malloc : BOOLEAN, open : BOOLEAN, write : BOOLEAN,
          body : BOOLEAN] :
     \/ e.malloc /\ e.open
     \/ e.malloc /\ e.body
     \/ e.open /\ e.body}

\* what write_all returned: the count, or -1
write_all(env) == IF env.write THEN "ok" ELSE "fail"

\* how the sendfile loop ended: offset reached st_size, or break
sendfile(env) == IF env.body THEN "ok" ELSE "fail"

\* the path under the docroot that a request path names
file_path(path) ==
  IF path = "" \/ path = "/" THEN <<"index.html">> ELSE <<path>>

\* stat: the docroot holds index.html, the file /a and the directory /d; a
\* path with .. in it names a file, outside the docroot or inside it
stat(fp, idx) ==
  CASE fp = <<"index.html">> -> "file"
    [] fp = <<"/a">> -> "file"
    [] fp = <<"/d">> -> "dir"
    [] fp = <<"/d", "index.html">> -> IF idx THEN "file" ELSE "none"
    [] fp \in {<<"/../a">>, <<"/a..b">>} -> "file"
    [] OTHER -> "none"

\* st_size of what stat finds: a regular file has MaxEst bytes; a directory
\* has the size of its entry table, which is not the size of a file in it
DirSize == MaxEst + 1
st_size(fp, idx) == IF stat(fp, idx) = "dir" THEN DirSize ELSE MaxEst

StatCall(fp) == [call |-> "stat", path |-> fp]
OpenCall(fp) == [call |-> "open", path |-> fp]

\* no bytes: recv returned 0 or less
NoData == <<>>

\* the estimator of the accept loop: est_cost from the peeked bytes
estimate(peek) ==
  LET rq == sscanf_request(peek)
      fp == file_path(rq.path)
  IN IF peek # NoData /\ rq.n >= 2 /\ ~HasDotDot(Chars(rq.path))
     THEN [est |-> IF stat(fp, TRUE) # "none" THEN st_size(fp, TRUE) ELSE 0,
           fs |-> <<StatCall(fp)>>]
     ELSE [est |-> 0, fs |-> <<>>]

\* a method test that lets every method through
method_allowed_any(method) == TRUE

\* strcmp(method, "GET") == 0 || strcmp(method, "HEAD") == 0
method_allowed(method) == method \in {"GET", "HEAD"}

\* an error response that forgets served++
after_error_no_count(sc, n) ==
  IF sc THEN [next |-> "ret", ret |-> 0, served |-> n]
  ELSE [next |-> "loop", ret |-> 0, served |-> n]

\* an error response after which handle_client always returns
after_error_always_return(sc, n) ==
  [next |-> "ret", ret |-> 0, served |-> n]

\* after a 403 or 404: if (should_close) return 0; served++; continue;
after_error(sc, n) ==
  IF sc THEN [next |-> "ret", ret |-> 0, served |-> n]
  ELSE [next |-> "loop", ret |-> 0, served |-> n + 1]

\* the end of the loop body without the test of should_close
after_ok_ignore_close(sc, n) ==
  IF n + 1 >= MAX_KEEPALIVE_REQUESTS
  THEN [next |-> "ret", ret |-> 0, served |-> n + 1]
  ELSE [next |-> "loop", ret |-> 0, served |-> n + 1]

\* after a 200: served++; return 0 if should_close or if served has reached
\* MAX_KEEPALIVE_REQUESTS
after_ok(sc, n) ==
  IF sc THEN [next |-> "ret", ret |-> 0, served |-> n + 1]
  ELSE IF n + 1 >= MAX_KEEPALIVE_REQUESTS
       THEN [next |-> "ret", ret |-> 0, served |-> n + 1]
       ELSE [next |-> "loop", ret |-> 0, served |-> n + 1]

Response(status, connection) == [status |-> status, connection |-> connection]

\* a pass through the loop body that ends in return -1: after the 400, 405
\* or 500 response, whose write_all result is not looked at, or after the
\* write_all of the 200 header has failed
Abort(r, fs, env, n) ==
  [resp |-> r, fs |-> fs, next |-> "ret", ret |-> -1, served |-> n,
   hdr |-> write_all(env), body |-> "none"]

\* a pass that answers 403 or 404; the write_all result is not looked at
Refuse(status, fs, sc, env, n) ==
  LET a == after_error(sc, n) IN
    [resp |-> Response(status, ""), fs |-> fs, next |-> a.next, ret |-> a.ret,
     served |-> a.served, hdr |-> write_all(env), body |-> "none"]

\* open, the 200 header with its Connection field, the body; the break out
\* of the sendfile loop goes on to close(fd) and served++ like its normal end
Send(fp, fs, sc, env, n) ==
  LET log == Append(fs, OpenCall(fp))
      a == after_ok(sc, n)
  IN IF ~env.open THEN Abort(Response(500, ""), log, env, n)
     ELSE IF write_all(env) = "fail" THEN Abort(NoResp, log, env, n)
     ELSE [resp |-> Response(200, IF sc THEN "close" ELSE "keep-alive"),
           fs |-> log, next |-> a.next, ret |-> a.ret, served |-> a.served,
           hdr |-> "ok", body |-> sendfile(env)]

\* the body of the loop of handle_client once read has returned bytes
handle_request(buf, env, n) ==
  LET rq == sscanf_request(buf)
      sc == should_close(buf, rq.version)
      fp == file_path(rq.path)
      idx == fp \o <<"index.html">>
  IN IF rq.n < 2 THEN Abort(Response(400, ""), <<>>, env, n)
     ELSE IF ~method_allowed(rq.method)
          THEN Abort(Response(405, ""), <<>>, env, n)
     ELSE IF ~sanitize_path(rq.path) THEN Refuse(403, <<>>, sc, env, n)
     ELSE IF stat(fp, env.idx) = "none"
          THEN Refuse(404, <<StatCall(fp)>>, sc, env, n)
     ELSE IF stat(fp, env.idx) = "dir"
          THEN IF ~env.malloc
               THEN Abort(Response(500, ""), <<StatCall(fp)>>, env, n)
               ELSE IF stat(idx, env.idx) = "none"
                    THEN Refuse(403, <<StatCall(fp), StatCall(idx)>>, sc, env, n)
                    ELSE Send(idx, <<StatCall(fp), StatCall(idx)>>, sc, env, n)
     ELSE Send(fp, <<StatCall(fp)>>, sc, env, n)

poolAndSched == <<poolVars, sched, pushed, popped, lastOp, atShutdown, srvVars>>

\* the accept loop of main: recv with MSG_PEEK on the accepted socket and the
\* estimate; the job then goes through the pool to a worker
main_peek ==
  /\ hpc = "accept"
  /\ \E peek \in Bufs \cup {NoData} :
       /\ req' = peek
       /\ estLog' = estimate(peek)
  /\ hpc' = "queued"
  /\ UNCHANGED <<served, resp, nresp, hret, fsLog, io, okSent>>
  /\ UNCHANGED poolAndSched

\* worker_main calls handle_client: served = 0, up to the loop
http_enter ==
  /\ hpc = "queued"
  /\ hpc' = "read"
  /\ served' = 0
  /\ req' = <<>>
  /\ estLog' = [est |-> 0, fs |-> <<>>]
  /\ io' = NoIo
  /\ okSent' = FALSE
  /\ UNCHANGED <<resp, nresp, hret, fsLog>>
  /\ UNCHANGED poolAndSched

\* the ways read ends without bytes: 0 (the peer closed), EINTR, EAGAIN or
\* EWOULDBLOCK (the receive timeout), another errno
ReadFailures == {"eof", "eintr", "timeout", "error"}

\* a read that takes the receive timeout for an error
read_result_timeout_is_error(o) ==
  CASE o = "eof" -> [next |-> "ret", ret |-> 0]
    [] o = "eintr" -> [next |-> "read", ret |-> 0]
    [] o = "timeout" -> [next |-> "ret", ret |-> -1]
    [] OTHER -> [next |-> "ret", ret |-> -1]

\* n == 0: return 0; n < 0: continue on EINTR, return 0 on EAGAIN or
\* EWOULDBLOCK, return -1 otherwise
read_result(o) ==
  CASE o = "eof" -> [next |-> "ret", ret |-> 0]
    [] o = "eintr" -> [next |-> "read", ret |-> 0]
    [] o = "timeout" -> [next |-> "ret", ret |-> 0]
    [] OTHER -> [next |-> "ret", ret |-> -1]

\* read returns 0, or fails with EINTR (retry), with EAGAIN (idle timeout) or
\* with another error
http_read_fail ==
  /\ hpc = "read"
  /\ \E o \in ReadFailures :
       LET r == read_result(o) IN
         /\ hpc' = r.next
         /\ hret' = IF r.next = "ret" THEN r.ret ELSE hret
         /\ io' = [NoIo EXCEPT !.read = o]
  /\ UNCHANGED <<served, req, resp, nresp, fsLog, estLog, okSent>>
  /\ UNCHANGED poolAndSched

\* read returns the bytes of a request and the loop body runs on them, to
\* its continue, its end or a return
http_request ==
  /\ hpc = "read"
  /\ \E buf \in Bufs : \E env \in Envs :
       \E r \in {handle_request(buf, env, served)} :
         /\ req' = buf
         /\ resp' = r.resp
         /\ fsLog' = r.fs
         /\ served' = r.served
         /\ hret' = IF r.next = "ret" THEN r.ret ELSE hret
         /\ hpc' = r.next
         /\ nresp' = IF r.resp = NoResp THEN nresp ELSE nresp + 1
         /\ io' = [read |-> "data", hdr |-> r.hdr, body |-> r.body]
         /\ okSent' = (okSent \/ r.resp.status = 200)
  /\ UNCHANGED estLog
  /\ UNCHANGED poolAndSched

\* while (served < MAX_KEEPALIVE_REQUESTS): back to read, or out of the loop
\* to return 0
http_loop ==
  /\ hpc = "loop"
  /\ IF served < MAX_KEEPALIVE_REQUESTS
     THEN /\ hpc' = "read"
          /\ req' = <<>>
          /\ resp' = NoResp
          /\ fsLog' = <<>>
          /\ io' = NoIo
          /\ UNCHANGED hret
     ELSE /\ hpc' = "ret"
          /\ hret' = 0
          /\ UNCHANGED <<req, resp, fsLog, io>>
  /\ UNCHANGED <<served, nresp, estLog, okSent>>
  /\ UNCHANGED poolAndSched

\* worker_main: close(job.client_fd) after handle_client has returned
http_close ==
  /\ hpc = "ret"
  /\ hpc' = "closed"
  /\ UNCHANGED <<served, req, resp, nresp, hret, fsLog, estLog, io, okSent>>
  /\ UNCHANGED poolAndSched

\* a connection has been accepted; the pool is left out
HttpInit ==
  /\ hpc = "accept"
  /\ served = 0
  /\ req = <<>>
  /\ resp = NoResp
  /\ nresp = 0
  /\ hret = 0
  /\ fsLog = <<>>
  /\ estLog = [est |-> 0, fs |-> <<>>]
  /\ io = NoIo
  /\ okSent = FALSE
  /\ ServerStart
  /\ sched = scheduler_fifo_create(1)
  /\ lastOp = NoOp
  /\ pushed = <<>>
  /\ popped = <<>>
  /\ pc = [t \in Threads |-> "off"]
  /\ lock = NoThread
  /\ shutdown = 0
  /\ job = [t \in Threads |-> ZeroJob]
  /\ result = [p \in Producers |-> 0]
  /\ stop = FALSE
  /\ freed = FALSE
  /\ nextFd = 1
  /\ clock = 0
  /\ handled = [f \in Fds |-> 0]
  /\ closed = [f \in Fds |-> 0]
  /\ retOk = {}
  /\ okBefore = {}
  /\ atShutdown = [queued |-> FALSE, inflight |-> FALSE]

HttpNext ==
  \/ main_peek
  \/ http_enter
  \/ http_read_fail
  \/ http_request
  \/ http_loop
  \/ http_close

HttpSpec == HttpInit /\ [][HttpNext]_vars

(* ------------------------------ the server ---------------------------- *)

\* everything of the pool but pc
poolRest == <<lock, shutdown, sched, job, result, stop, freed, nextFd, clock,
              handled, closed, pushed, popped, retOk, okBefore, lastOp, atShutdown>>

\* the connections in the queue of the listening socket: made, not accepted
Backlog == conns - (nextFd - 1)

\* metrics_inc_submit
metrics_inc_submit(m, est) ==
  [m EXCEPT !.submits_total = @ + 1,
            !.submits_est0 = IF est <= 0 THEN @ + 1 ELSE @]

\* metrics_inc_pop; no function of the server calls it
metrics_inc_pop(m, est) == [m EXCEPT !.pops_total = @ + 1]

\* metrics_init: the counters are zeroed, metrics_running is set and the
\* reporter thread is created; when pthread_create fails metrics_running is
\* cleared and -1 returned, which main does not look at
metrics_init ==
  /\ pc[Main] = "m_init"
  /\ \E created \in BOOLEAN :
       /\ metrics' = [NoMetrics EXCEPT !.running = IF created THEN 1 ELSE 0]
       /\ reporter' = IF created THEN "test" ELSE "none"
  /\ pc' = [pc EXCEPT ![Main] = "loop"]
  /\ UNCHANGED <<listening, conns, sent, shutLog, afterStop, snap>>
  /\ UNCHANGED <<poolRest, httpVars>>

\* metrics_thread_fn: while (atomic_load(&metrics_running))
metrics_thread_test ==
  /\ reporter = "test"
  /\ reporter' = IF metrics.running = 1 THEN "sleep" ELSE "done"
  /\ UNCHANGED <<listening, conns, sent, metrics, shutLog, afterStop, snap>>
  /\ UNCHANGED <<pc, poolRest, httpVars>>

\* metrics_thread_fn: sleep(interval), the loads and the line on stderr
metrics_thread_report ==
  /\ reporter = "sleep"
  /\ reporter' = "test"
  /\ UNCHANGED <<listening, conns, sent, metrics, shutLog, afterStop, snap>>
  /\ UNCHANGED <<pc, poolRest, httpVars>>

\* a client connects: the connection waits in the queue of the listening
\* socket (listen with a backlog of 128)
client_connect ==
  /\ listening
  /\ conns < MaxConns
  /\ conns' = conns + 1
  /\ UNCHANGED <<listening, sent, metrics, reporter, shutLog, afterStop, snap>>
  /\ UNCHANGED <<pc, poolRest, httpVars>>

\* a client that has connected sends bytes, or closes its end
client_send(f) ==
  /\ f \in 1..conns
  /\ f \notin sent
  /\ sent' = sent \cup {f}
  /\ UNCHANGED <<listening, conns, metrics, reporter, shutLog, afterStop, snap>>
  /\ UNCHANGED <<pc, poolRest, httpVars>>

\* accept returns a connection of the queue, or fails with an error other
\* than EINTR, which ends the loop; with an empty queue it blocks
srv_accept ==
  /\ pc[Main] = "accept"
  /\ \E outcome \in {"connection", "error"} :
       IF outcome = "connection"
       THEN /\ Backlog > 0
            /\ nextFd <= MaxJobs
            /\ job' = [job EXCEPT ![Main] = Job(nextFd, 0, 0)]
            /\ nextFd' = nextFd + 1
            /\ pc' = [pc EXCEPT ![Main] = "peek"]
            /\ afterStop' = IF stop
                            THEN [afterStop EXCEPT !.accepted = @ + 1]
                            ELSE afterStop
       ELSE /\ pc' = [pc EXCEPT ![Main] = "d_lock"]
            /\ UNCHANGED <<job, nextFd, afterStop>>
  /\ UNCHANGED <<lock, shutdown, sched, result, stop, freed, clock, handled,
                 closed, pushed, popped, retOk, okBefore, lastOp, atShutdown>>
  /\ UNCHANGED <<listening, conns, sent, metrics, reporter, shutLog, snap>>
  /\ UNCHANGED httpVars

\* the rest of the loop body once recv has returned: the job with est_cost
\* and arrival_ms, metrics_inc_submit, and the call of threadpool_submit_job
Estimated(est, stopped) ==
  /\ job' = [job EXCEPT ![Main] = Job(job[Main].client_fd, est, now_ms)]
  /\ clock' = now_ms
  /\ okBefore' = okBefore \cup {<<a, job[Main].client_fd>> : a \in retOk \ PoppedFds}
  /\ metrics' = metrics_inc_submit(metrics, est)
  /\ afterStop' = IF stopped
                  THEN [afterStop EXCEPT !.submitted = @ + 1]
                  ELSE afterStop
  /\ pc' = [pc EXCEPT ![Main] = "s_lock"]
  /\ UNCHANGED <<listening, conns, sent, reporter, shutLog, snap>>
  /\ UNCHANGED <<lock, shutdown, sched, result, freed, nextFd, handled, closed,
                 pushed, popped, retOk, lastOp, atShutdown>>
  /\ UNCHANGED httpVars

\* recv(client_fd, peek, sizeof(peek) - 1, MSG_PEEK) on the blocking socket:
\* it returns when the client has sent bytes or closed, with est_cost the
\* size of the file the bytes name or 0
srv_peek ==
  /\ pc[Main] = "peek"
  /\ job[Main].client_fd \in sent
  /\ \E est \in Ests : Estimated(est, stop)
  /\ UNCHANGED stop

\* SIGINT while main is in recv, and recv fails with EINTR: n < 0, est = 0
sigint_peek ==
  /\ pc[Main] = "peek"
  /\ ~stop
  /\ stop' = TRUE
  /\ Estimated(0, TRUE)

\* the order of the calls of main with the listener closed before the
\* metrics are shut down
after_destroy_close_first == <<"close", "metrics_shutdown">>

\* the calls of main after threadpool_destroy(tp), in their order
after_destroy == <<"metrics_shutdown", "close">>

\* the next statement of main after threadpool_destroy
NextCall ==
  IF Len(shutLog) < Len(after_destroy)
  THEN after_destroy[Len(shutLog) + 1]
  ELSE "return"

\* metrics_shutdown: atomic_store(&metrics_running, 0), then pthread_join
metrics_shutdown ==
  /\ pc[Main] = "m_done"
  /\ NextCall = "metrics_shutdown"
  /\ metrics' = [metrics EXCEPT !.running = 0]
  /\ shutLog' = Append(shutLog, "metrics_shutdown")
  /\ pc' = [pc EXCEPT ![Main] = "ms_join"]
  /\ UNCHANGED <<listening, conns, sent, reporter, afterStop, snap>>
  /\ UNCHANGED <<poolRest, httpVars>>

\* pthread_join(metrics_thread, NULL) returns when the reporter has returned
metrics_join ==
  /\ pc[Main] = "ms_join"
  /\ reporter = "done"
  /\ reporter' = "joined"
  /\ pc' = [pc EXCEPT ![Main] = "m_done"]
  /\ UNCHANGED <<listening, conns, sent, metrics, shutLog, afterStop, snap>>
  /\ UNCHANGED <<poolRest, httpVars>>

\* what pthread_join does with a pthread_t that names no thread: undefined;
\* it returns an error, or the process faults, or the call never returns
JoinOutcomes == {"returns", "faults", "blocks"}

AfterBadJoin(o, back) ==
  CASE o = "returns" -> back
    [] o = "faults" -> "crashed"
    [] OTHER -> "blocked"

\* pthread_join(metrics_thread, NULL) with metrics_thread never set by
\* pthread_create
metrics_join_unstarted ==
  /\ pc[Main] = "ms_join"
  /\ reporter = "none"
  /\ reporter' = "misjoined"
  /\ \E o \in JoinOutcomes :
       pc' = [pc EXCEPT ![Main] = AfterBadJoin(o, "m_done")]
  /\ UNCHANGED <<listening, conns, sent, metrics, shutLog, afterStop, snap>>
  /\ UNCHANGED <<poolRest, httpVars>>

\* close(server_fd)
main_close ==
  /\ pc[Main] = "m_done"
  /\ NextCall = "close"
  /\ listening' = FALSE
  /\ shutLog' = Append(shutLog, "close")
  /\ UNCHANGED <<conns, sent, metrics, reporter, afterStop, snap>>
  /\ UNCHANGED <<pc, poolRest, httpVars>>

\* return 0
main_return ==
  /\ pc[Main] = "m_done"
  /\ NextCall = "return"
  /\ pc' = [pc EXCEPT ![Main] = "exit"]
  /\ UNCHANGED <<poolRest, httpVars, srvVars>>

(* -------- the reporter against metrics_inc_submit (MetricsSpec) --------- *)

\* metrics_inc_submit, first statement: atomic_fetch_add(&submits_total, 1);
\* main goes on to the second statement when est <= 0
metrics_inc_submit_total ==
  /\ pc[Main] = "loop"
  /\ metrics.submits_total < MaxSubmits
  /\ \E est \in Ests :
       pc' = [pc EXCEPT ![Main] = IF est <= 0 THEN "inc_est0" ELSE "loop"]
  /\ metrics' = [metrics EXCEPT !.submits_total = @ + 1]
  /\ UNCHANGED <<listening, conns, sent, reporter, shutLog, afterStop, snap>>
  /\ UNCHANGED <<poolRest, httpVars>>

\* metrics_inc_submit, second statement: atomic_fetch_add(&submits_est0, 1)
metrics_inc_submit_est0 ==
  /\ pc[Main] = "inc_est0"
  /\ metrics' = [metrics EXCEPT !.submits_est0 = @ + 1]
  /\ pc' = [pc EXCEPT ![Main] = "loop"]
  /\ UNCHANGED <<listening, conns, sent, reporter, shutLog, afterStop, snap>>
  /\ UNCHANGED <<poolRest, httpVars>>

\* main leaves its loop and comes to the first statement of
\* metrics_shutdown: atomic_store(&metrics_running, 0)
metrics_stop ==
  /\ pc[Main] = "loop"
  /\ metrics' = [metrics EXCEPT !.running = 0]
  /\ pc' = [pc EXCEPT ![Main] = "ms_join"]
  /\ UNCHANGED <<listening, conns, sent, reporter, shutLog, afterStop, snap>>
  /\ UNCHANGED <<poolRest, httpVars>>

\* metrics_thread_fn: sleep(interval) and the loads up to
\* uint64_t subs = atomic_load(&submits_total)
metrics_thread_load_subs ==
  /\ reporter = "sleep"
  /\ snap' = [snap EXCEPT !.subs = metrics.submits_total]
  /\ reporter' = "load_subs0"
  /\ UNCHANGED <<listening, conns, sent, metrics, shutLog, afterStop>>
  /\ UNCHANGED <<pc, poolRest, httpVars>>

\* metrics_thread_fn: uint64_t subs0 = atomic_load(&submits_est0)
metrics_thread_load_subs0 ==
  /\ reporter = "load_subs0"
  /\ snap' = [snap EXCEPT !.subs0 = metrics.submits_est0]
  /\ reporter' = "print"
  /\ UNCHANGED <<listening, conns, sent, metrics, shutLog, afterStop>>
  /\ UNCHANGED <<pc, poolRest, httpVars>>

\* est0_frac = subs ? ((double)subs0 / (double)subs) * 100.0 : 0.0, to the
\* whole percent below it
est0_frac(subs, subs0) == IF subs # 0 THEN (subs0 * 100) \div subs ELSE 0

\* metrics_thread_fn: the fprintf of the line
metrics_thread_print ==
  /\ reporter = "print"
  /\ snap' = [snap EXCEPT !.line = [subs |-> snap.subs, subs0 |-> snap.subs0,
                                    est0_frac |-> est0_frac(snap.subs, snap.subs0),
                                    printed |-> TRUE]]
  /\ reporter' = "test"
  /\ UNCHANGED <<listening, conns, sent, metrics, shutLog, afterStop>>
  /\ UNCHANGED <<pc, poolRest, httpVars>>

\* main is about to call metrics_init
MetricsInit == InitPool("m_init", "off", FifoScheds)

MetricsNext ==
  \/ metrics_init
  \/ metrics_inc_submit_total
  \/ metrics_inc_submit_est0
  \/ metrics_stop
  \/ metrics_thread_test
  \/ metrics_thread_load_subs
  \/ metrics_thread_load_subs0
  \/ metrics_thread_print

MetricsSpec == MetricsInit /\ [][MetricsNext]_vars

\* main after threadpool_create, about to call metrics_init
ServerInit == InitPool("m_init", "off", FifoScheds)

ServerNext ==
  \/ \E w \in Workers : worker_lock(w)
  \/ \E w \in Workers : worker_try(w)
  \/ \E w \in Workers : worker_drain(w)
  \/ \E w \in Workers : worker_handle(w)
  \/ \E w \in Workers : worker_close(w)
  \/ submit_lock(Main)
  \/ submit_try(Main)
  \/ submit_ret(Main)
  \/ \E t \in Threads : spurious_wakeup(t)
  \/ metrics_init
  \/ metrics_thread_test
  \/ metrics_thread_report
  \/ client_connect
  \/ \E f \in Fds : client_send(f)
  \/ main_loop
  \/ srv_accept
  \/ srv_peek
  \/ sigint_handler
  \/ sigint_peek
  \/ destroy_lock
  \/ destroy_set
  \/ destroy_join
  \/ destroy_free
  \/ metrics_shutdown
  \/ metrics_join
  \/ metrics_join_unstarted
  \/ main_close
  \/ main_return

ServerSpec == ServerInit /\ [][ServerNext]_vars

(* ------------------- a pool with workers that never started ----------- *)

\* tp->workers: the slots of the array in the order of the pthread_join loop
WorkerSlots == <<"w1", "w2">>

\* the workers whose slot comes before that of w
SlotsBefore(w) ==
  {WorkerSlots[i] : i \in {i \in 1..Len(WorkerSlots) :
                             \E k \in (i + 1)..Len(WorkerSlots) : WorkerSlots[k] = w}}

\* the pthread_join loop reaches the slot of a worker that pthread_create did
\* not start: pthread_join on a pthread_t that names no thread
destroy_join_unstarted(w) ==
  /\ pc[Main] = "d_join"
  /\ pc[w] = "unstarted"
  /\ \A v \in SlotsBefore(w) : pc[v] \in {"done", "misjoined"}
  /\ \E o \in JoinOutcomes :
       pc' = [pc EXCEPT ![w] = "misjoined", ![Main] = AfterBadJoin(o, "d_join")]
  /\ UNCHANGED <<poolRest, httpVars, srvVars>>

(* ------- threadpool_create and the first calls through tp->sched ------- *)
(* (CreateSpec)                                                            *)

\* tp->sched == NULL: calloc zeroed the pool, or scheduler_fifo_create
\* returned NULL
NoSched == [kind |-> "none", capacity |-> 0, count |-> 0]

\* threadpool_create: tp->sched = scheduler_fifo_create(queue_capacity); one
\* of the three callocs of scheduler_fifo_create may fail, and then the
\* perror is all that happens
threadpool_create_sched ==
  /\ pc[Main] = "tp_create"
  /\ \E calloc_ok \in BOOLEAN :
       sched' \in IF calloc_ok THEN FifoScheds ELSE {NoSched}
  /\ pc' = [pc EXCEPT ![Main] = "tp_start"]
  /\ UNCHANGED <<lock, shutdown, job, result, stop, freed, nextFd, clock,
                 handled, closed, pushed, popped, retOk, okBefore, lastOp, atShutdown>>
  /\ UNCHANGED <<httpVars, srvVars>>

\* threadpool_create: pthread_create(&tp->workers[i], NULL, worker_main, tp),
\* one slot after the other; the worker runs from then on
threadpool_create_worker(w) ==
  /\ pc[Main] = "tp_start"
  /\ pc[w] = "unstarted"
  /\ \A v \in SlotsBefore(w) : pc[v] # "unstarted"
  /\ pc' = [pc EXCEPT ![w] = "lock"]
  /\ UNCHANGED <<poolRest, httpVars, srvVars>>

\* threadpool_create: return tp; main, which finds tp non-NULL, goes on to
\* its accept loop with the scheduler threadpool_create left
threadpool_create_return ==
  /\ pc[Main] = "tp_start"
  /\ \A w \in Workers : pc[w] # "unstarted"
  /\ pc' = [pc EXCEPT ![Main] = "loop"]
  /\ UNCHANGED <<poolRest, httpVars, srvVars>>

\* what the call through a NULL tp->sched does: the load of the function
\* pointer faults and the process is killed, or it yields some address and
\* the call made to it returns a value other than 0, or does not return
DerefOutcomes == {"faults", "returns", "blocks"}

\* the threads after the call through the NULL pointer made by t: a fault
\* ends every thread of the process
AfterDeref(o, t, back) ==
  CASE o = "faults" -> [u \in Threads |-> "crashed"]
    [] o = "returns" -> [pc EXCEPT ![t] = back]
    [] OTHER -> [pc EXCEPT ![t] = "blocked"]

\* worker_main: tp->sched->pop(tp->sched, &job) with a scheduler installed
worker_pop(w) ==
  /\ sched # NoSched
  /\ worker_try(w)

\* worker_main: tp->sched->pop(tp->sched, &job) with tp->sched == NULL
worker_pop_null(w) ==
  /\ pc[w] = "try"
  /\ lock = w
  /\ sched = NoSched
  /\ \E o \in DerefOutcomes :
       /\ pc' = AfterDeref(o, w, IF shutdown = 1 THEN "after" ELSE "wait")
       /\ lock' = IF o = "returns" /\ shutdown = 0 THEN NoThread ELSE lock
  /\ UNCHANGED <<shutdown, sched, job, result, stop, freed, nextFd, clock,
                 handled, closed, pushed, popped, retOk, okBefore, lastOp, atShutdown>>
  /\ UNCHANGED <<httpVars, srvVars>>

\* threadpool_submit_job: tp->sched->push(tp->sched, job) with a scheduler
\* installed
submit_push(p) ==
  /\ sched # NoSched
  /\ submit_try(p)

\* threadpool_submit_job: tp->sched->push(tp->sched, job) with
\* tp->sched == NULL; shutdown is tested first
submit_push_null(p) ==
  /\ pc[p] = "s_try"
  /\ lock = p
  /\ sched = NoSched
  /\ shutdown = 0
  /\ \E o \in DerefOutcomes :
       /\ pc' = AfterDeref(o, p, "s_wait")
       /\ lock' = IF o = "returns" THEN NoThread ELSE lock
  /\ UNCHANGED <<shutdown, sched, job, result, stop, freed, nextFd, clock,
                 handled, closed, pushed, popped, retOk, okBefore, lastOp, atShutdown>>
  /\ UNCHANGED <<httpVars, srvVars>>

\* main has allocated the pool and is about to build its scheduler; no worker
\* runs yet
CreateInit == InitPoolWith({}, "tp_create", "off", {NoSched})

CreateNext ==
  \/ threadpool_create_sched
  \/ \E w \in Workers : threadpool_create_worker(w)
  \/ threadpool_create_return
  \/ main_loop
  \/ main_accept
  \/ \E w \in Workers : worker_lock(w)
  \/ \E w \in Workers : worker_pop(w)
  \/ \E w \in Workers : worker_pop_null(w)
  \/ \E w \in Workers : worker_handle(w)
  \/ \E w \in Workers : worker_close(w)
  \/ submit_lock(Main)
  \/ submit_push(Main)
  \/ submit_push_null(Main)
  \/ submit_ret(Main)
  \/ \E t \in Threads : spurious_wakeup(t)

CreateSpec == CreateInit /\ [][CreateNext]_vars

(* ------ a running pool fed by two producers, never destroyed ---------- *)
(* (WakeSpec)                                                              *)

\* the pool as threadpool_create leaves it, with its FIFO scheduler; the two
\* further threads are about to submit connections
WakeInit == InitPool("off", "idle", FifoScheds)

WakeNext ==
  \/ \E w \in Workers : worker_lock(w)
  \/ \E w \in Workers : worker_try(w)
  \/ \E w \in Workers : worker_handle(w)
  \/ \E w \in Workers : worker_close(w)
  \/ \E p \in Extras : extra_submit(p)
  \/ \E p \in Extras : submit_lock(p)
  \/ \E p \in Extras : submit_try(p)
  \/ \E p \in Extras : submit_ret(p)
  \/ \E t \in Threads : spurious_wakeup(t)

\* a thread that can run does run, handle_client returns, and a thread that
\* finds the mutex free again and again gets it in the end; nothing obliges
\* a producer to submit or a wait to end without a signal
WakeSpec ==
  /\ WakeInit
  /\ [][WakeNext]_vars
  /\ \A w \in Workers : SF_vars(worker_lock(w))
  /\ \A w \in Workers : WF_vars(worker_try(w))
  /\ \A w \in Workers : WF_vars(worker_handle(w))
  /\ \A w \in Workers : WF_vars(worker_close(w))
  /\ \A p \in Extras : SF_vars(submit_lock(p))
  /\ \A p \in Extras : WF_vars(submit_try(p))
  /\ \A p \in Extras : WF_vars(submit_ret(p))

\* threadpool_create has returned a pool in which some and not all of the
\* nworkers threads were started; threadpool_destroy is called at some
\* moment
PartialInit ==
  \E started \in SUBSET Workers :
    /\ started # {}
    /\ started # Workers
    /\ InitPoolWith(started, "d_lock", "idle", FifoScheds)

PartialNext ==
  \/ PoolNext
  \/ \E w \in Workers : destroy_join_unstarted(w)

PartialSpec == PartialInit /\ [][PartialNext]_vars

(* ------------------------------ properties ---------------------------- *)

\* C9: for the FIFO and for the SJF scheduler, after any sequence of push and
\* pop calls the count is at least 0 and at most the capacity.
C9_CountWithinCapacity ==
  /\ 0 <= sched.count
  /\ sched.count <= sched.capacity

\* a push was refused by a full scheduler that had been popped from before
C9_Witness ==
  /\ lastOp.op = "push"
  /\ lastOp.ret = -1
  /\ sched.count = sched.capacity
  /\ Len(popped) > 0

\* C10: for both schedulers, push returns -1 exactly when count equalled the
\* capacity before the call and pop returns -1 exactly when count was 0 before
\* the call; otherwise they return 0 and count changes by exactly +1 (push) or
\* -1 (pop); a refused call leaves count as it was.
C10_ReturnCodesMatchBoundary ==
  /\ lastOp.op = "push" =>
       /\ lastOp.ret \in {0, -1}
       /\ (lastOp.ret = -1) <=> (lastOp.before = sched.capacity)
       /\ sched.count = IF lastOp.ret = 0 THEN lastOp.before + 1 ELSE lastOp.before
  /\ lastOp.op = "pop" =>
       /\ lastOp.ret \in {0, -1}
       /\ (lastOp.ret = -1) <=> (lastOp.before = 0)
       /\ sched.count = IF lastOp.ret = 0 THEN lastOp.before - 1 ELSE lastOp.before

\* the SJF scheduler, emptied again after pushes, refuses a pop
C10_Witness ==
  /\ sched.kind = "sjf"
  /\ lastOp.op = "pop"
  /\ lastOp.ret = -1
  /\ Len(popped) > 1

(* ----------------------- properties of the pool ----------------------- *)

PushedFds == {pushed[i].client_fd : i \in 1..Len(pushed)}
PushCount(f) == Cardinality({i \in 1..Len(pushed) : pushed[i].client_fd = f})
PopCount(f) == Cardinality({i \in 1..Len(popped) : popped[i].client_fd = f})

\* the workers are joined: threadpool_destroy is past its pthread_join loop
Joined == pc[Main] \in {"d_free", "m_done"}

\* C1: drain on shutdown. Once threadpool_destroy is past its joins (and so
\* when it returns), handle_client has been called on the client_fd of every
\* job whose threadpool_submit_job returned 0, and that fd has been closed,
\* jobs still queued when the shutdown flag was set included.
C1_DrainOnShutdown ==
  Joined => \A f \in retOk : handled[f] >= 1 /\ closed[f] >= 1

\* threadpool_destroy has returned, and jobs were queued when it set the flag
C1_Witness ==
  /\ freed
  /\ atShutdown.queued
  /\ retOk # {}

\* C2: under the FIFO policy, when a threadpool_submit_job call returned 0
\* before another one was called, the job of the first is popped before the job
\* of the second: no job is popped while a job submitted before it is queued.
C2_FifoSubmissionOrder ==
  sched.kind = "fifo" => \A e \in okBefore : e[2] \notin PoppedFds

\* two jobs submitted one after the other are queued together, after a pop
C2_Witness ==
  /\ sched.kind = "fifo"
  /\ Len(popped) > 0
  /\ \E e \in okBefore : e[2] \in PushedFds

\* C3: every accepted client socket is closed exactly once over the run: never
\* twice; by the acceptor, unhandled, when threadpool_submit_job failed, and
\* otherwise after the one call of handle_client on it; and when main is done
\* every accepted socket is closed.
C3_ClosedExactlyOnce ==
  /\ \A f \in Fds : closed[f] <= 1
  /\ \A f \in Fds : closed[f] = 1 => handled[f] = (IF f \in retOk THEN 1 ELSE 0)
  /\ pc[Main] = "m_done" => \A f \in 1..(nextFd - 1) : closed[f] = 1

\* the server has shut down after accepting MaxJobs connections
C3_Witness ==
  /\ pc[Main] = "m_done"
  /\ nextFd > MaxJobs
  /\ \A f \in Fds : closed[f] = 1

\* C4: a submitted job is popped by one worker only and handle_client is called
\* on it once: two workers never hold the same client_fd between dequeue and
\* close, no client_fd is popped or handled twice, only submitted jobs are
\* popped, and when the workers are joined each submitted job was popped and
\* handled exactly once.
C4_ExclusiveOwnership ==
  /\ \A w1 \in Holding, w2 \in Holding :
       w1 # w2 => job[w1].client_fd # job[w2].client_fd
  /\ \A f \in Fds : PopCount(f) <= 1 /\ handled[f] <= 1
  /\ PoppedFds \subseteq retOk
  /\ Joined => \A f \in retOk : PopCount(f) = 1 /\ handled[f] = 1

\* both workers hold a job at once
C4_Witness == Cardinality(Holding) = 2

\* C5: backpressure. The scheduler never holds more jobs than its capacity;
\* a threadpool_submit_job call returns 0 only in a step taken while the
\* scheduler holds fewer jobs than its capacity (so with a full scheduler, not
\* before a pop); and every call that returned 0 has pushed its job exactly
\* once, no job being pushed twice or pushed without its call returning 0.
C5_Backpressure ==
  /\ [](/\ sched.count <= sched.capacity
        /\ \A f \in Fds : PushCount(f) = (IF f \in retOk THEN 1 ELSE 0))
  /\ [][\A p \in Producers :
          (pc[p] # "s_ret" /\ pc'[p] = "s_ret" /\ result'[p] = 0)
            => sched.count < sched.capacity]_vars

\* a producer waits on not_full with the scheduler full, after a job was
\* pushed into a slot that a pop had freed
C5_Witness ==
  /\ sched.count = sched.capacity
  /\ Len(pushed) > sched.capacity
  /\ WaitingNotFull # {}

\* C6: once the shutdown flag is set it stays set and no job is added to the
\* scheduler, and every threadpool_submit_job that then runs its loop under
\* the lock returns -1 and leaves the scheduler as it was.
C6_ShutdownIsFinal ==
  [][shutdown = 1 =>
       /\ shutdown' = 1
       /\ pushed' = pushed
       /\ sched'.count <= sched.count
       /\ \A p \in Producers :
            (pc[p] = "s_try" /\ pc'[p] # "s_try")
              => (pc'[p] = "s_ret" /\ result'[p] = -1 /\ sched' = sched)]_vars

\* a submission made after shutdown was set has returned -1
C6_Witness ==
  /\ shutdown = 1
  /\ \E p \in Producers : pc[p] = "s_ret" /\ result[p] = -1

\* C7: a threadpool_submit_job call blocked on not_full returns once
\* threadpool_destroy is called, however many producers are blocked: when
\* threadpool_destroy has freed the pool no producer is still waiting on
\* not_full.
C7_NoProducerBlockedAtFree ==
  freed => WaitingNotFull = {}

\* C8: threadpool_destroy is past its joins, and frees the scheduler, the
\* docroot and the pool, only when every worker has returned; a request in a
\* worker's hands when shutdown was set is not cancelled: every popped job
\* has by then been handled once and its socket closed.
C8_DestroyWaitsForWorkers ==
  /\ (Joined \/ freed) => \A w \in Workers : pc[w] = "done"
  /\ Joined => \A f \in PoppedFds : handled[f] = 1 /\ closed[f] = 1

\* threadpool_destroy has returned, and a worker held a job when it set the flag
C8_Witness ==
  /\ freed
  /\ atShutdown.inflight

(* --------------------- properties of the schedulers ------------------- *)

\* the jobs pushed and not yet popped (SchedSpec gives every pushed job its
\* own client_fd)
StillQueued ==
  {pushed[i] : i \in 1..Len(pushed)} \ {popped[i] : i \in 1..Len(popped)}

\* C11: FIFO scheduler: after any interleaving of successful pushes and pops,
\* wraps of head and tail around the ring included, the sequence of popped
\* jobs is a prefix of the sequence of pushed jobs, and count is the number
\* of pushed jobs not yet popped.
C11_FifoPoppedIsPrefixOfPushed ==
  sched.kind = "fifo" =>
    /\ Len(popped) <= Len(pushed)
    /\ popped = SubSeq(pushed, 1, Len(popped))
    /\ sched.count = Len(pushed) - Len(popped)

\* a ring of two slots has been filled and emptied so that head wrapped twice
C11_Witness ==
  /\ sched.kind = "fifo"
  /\ sched.capacity = 2
  /\ Len(popped) >= 4
  /\ sched.head = 0

\* C12: SJF scheduler: every successful pop returns a job that was queued and
\* whose (est_cost, arrival_ms) is lexicographically least among the jobs
\* queued at that moment (so a queued job of est_cost 0 goes before any of
\* est_cost > 0), and a pop that directly follows a successful pop returns
\* an est_cost that is not smaller.
C12_SjfPopsMinimum ==
  [][(sched.kind = "sjf" /\ popped' # popped) =>
       LET out == popped'[Len(popped')] IN
         /\ out \in StillQueued
         /\ \A q \in StillQueued :
              \/ out.est_cost < q.est_cost
              \/ out.est_cost = q.est_cost /\ out.arrival_ms <= q.arrival_ms
         /\ (\E q \in StillQueued : q.est_cost = 0) => out.est_cost = 0
         /\ (lastOp.op = "pop" /\ lastOp.ret = 0)
              => popped[Len(popped)].est_cost <= out.est_cost]_vars

\* a heap of four jobs of both costs has been popped twice in a row
C12_Witness ==
  /\ sched.kind = "sjf"
  /\ Len(pushed) >= 4
  /\ Len(popped) >= 2
  /\ lastOp.op = "pop"
  /\ lastOp.ret = 0
  /\ sched.count >= 2
  /\ \E q \in StillQueued : q.est_cost > popped[Len(popped)].est_cost
  /\ \E q \in StillQueued : q.est_cost = popped[Len(popped)].est_cost

\* C13: SJF scheduler: when the jobs are pushed with arrival_ms non-decreasing
\* in push order, two jobs of equal est_cost are popped in the order in which
\* they were pushed.
C13_SjfFifoAmongTies ==
  (/\ sched.kind = "sjf"
   /\ \A i \in 1..Len(pushed) : \A j \in 1..Len(pushed) :
        i < j => pushed[i].arrival_ms <= pushed[j].arrival_ms)
  => \A i \in 1..Len(popped) : \A j \in 1..Len(popped) :
       (i < j /\ popped[i].est_cost = popped[j].est_cost)
         => popped[i].client_fd < popped[j].client_fd

\* C14: SJF scheduler fed an endless stream of jobs that all have the same
\* est_cost: while the workers keep popping and time passes, every queued job
\* is eventually popped, whatever is pushed in the meantime: no connection
\* stays in the queue from some moment on.
C14_NoStarvationAmongEqualCost ==
  \A f \in StreamFds : []<>(f \notin QueuedFds)

\* a full heap holds jobs pushed after an older one that still waits
C14_Witness ==
  /\ sched.kind = "sjf"
  /\ clock > 0
  /\ sched.count = sched.capacity
  /\ sched.count >= 3
  /\ \E a \in QueuedJobs(sched) : \E b \in QueuedJobs(sched) :
       a.arrival_ms < b.arrival_ms

C16_KeepAliveCap ==
  /\ [](nresp <= 8)
  /\ [](served <= 8)
  /\ [](served >= 8 => hpc \in {"loop", "ret", "closed"})
  /\ [][(hpc = "loop" /\ served >= 8) => hpc' = "ret"]_vars
  /\ [][hpc = "ret" => hpc' = "closed"]_vars

\* the eighth response on a connection was a 404 that kept the connection
\* alive, and the socket is closed
C16_Witness ==
  /\ hpc = "closed"
  /\ nresp = 8
  /\ served = 8
  /\ resp.status = 404

\* a pass through the loop body has dealt with the bytes in req
Processed == hpc \in {"loop", "ret", "closed"} /\ req # <<>>

\* handle_client has returned after the last response
Returned == hpc \in {"ret", "closed"}

\* C17 as stated: in every 200 response the Connection header is 'close'
\* exactly when handle_client returns after that response, and 'keep-alive'
\* exactly when handle_client goes on to read a further request.
C17_HeaderTellsWhatFollows ==
  (Processed /\ resp.status = 200) =>
    /\ resp.connection = "close" <=> Returned
    /\ resp.connection = "keep-alive" <=> (hpc = "loop" /\ served < 8)

\* C17 as amended: a 200 response with 'Connection: close' is followed by
\* the return of handle_client; one with 'Connection: keep-alive' is followed
\* by a further read, except when it answers the 8th request served on the
\* connection: then handle_client returns although the header said keep-alive.
C17_HeaderTellsWhatFollowsBelowCap ==
  (Processed /\ resp.status = 200) =>
    /\ resp.connection \in {"close", "keep-alive"}
    /\ resp.connection = "close" => Returned
    /\ resp.connection = "keep-alive" =>
         IF served < 8 THEN hpc = "loop" ELSE Returned
    /\ (served < 8 /\ Returned) => resp.connection = "close"

\* the 8th request was answered 200 with keep-alive and the socket is closed
C17_Witness ==
  /\ hpc = "closed"
  /\ resp = Response(200, "keep-alive")
  /\ served = 8

\* the header lines of the bytes in req
HeaderLinesOf(buf) == {buf[k] : k \in 2..Len(buf)}

\* the decision the claim states for a request
ClaimedClose(buf) ==
  IF HeaderLinesOf(buf) \cap {<<"Connection:", "close">>,
                              <<"connection:", "CLOSE">>} # {}
  THEN TRUE
  ELSE IF HeaderLinesOf(buf) \cap {<<"Connection:", "keep-alive">>,
                                   <<"CONNECTION:", "Keep-Alive">>} # {}
       THEN FALSE
       ELSE Len(buf[1]) = 3 /\ buf[1][3] = "HTTP/1.0"

\* C18: the keep-alive decision is close by default when the version token
\* is HTTP/1.0 and keep-alive otherwise, a missing version included; a
\* 'Connection: close' line forces close and a 'Connection: keep-alive' line
\* forces keep-alive, in any case of letters and only at the start of a
\* line; with both, close wins. The decision shows in the Connection header
\* of a 200 and in whether a 403 or 404 is followed by a return.
C18_KeepAliveDecision ==
  Processed =>
    /\ resp.status = 200 =>
         resp.connection = IF ClaimedClose(req) THEN "close" ELSE "keep-alive"
    /\ resp.status \in {403, 404} =>
         IF ClaimedClose(req) THEN Returned /\ hret = 0
         ELSE hpc = "loop" \/ served = 8

\* an HTTP/1.1 request with both header lines was answered 200 with close
C18_Witness ==
  /\ Processed
  /\ resp = Response(200, "close")
  /\ Len(req[1]) = 3
  /\ req[1][3] = "HTTP/1.1"
  /\ <<"connection:", "CLOSE">> \in HeaderLinesOf(req)
  /\ <<"Connection:", "keep-alive">> \in HeaderLinesOf(req)

\* the request line of the bytes in b names a path with .. in it
NamesTraversal(b) ==
  /\ b # <<>>
  /\ Len(b[1]) >= 2
  /\ b[1][2] \in {"/../a", "/a..b"}

\* C19 as stated: every request whose path contains '..' is answered 403 by
\* the handler, which makes no stat and no open for it, and the estimator of
\* the acceptor makes no stat for it and leaves est_cost 0.
C19_TraversalGuard ==
  /\ (Processed /\ NamesTraversal(req)) =>
       resp.status = 403 /\ fsLog = <<>>
  /\ (hpc = "queued" /\ NamesTraversal(req)) =>
       estLog = [est |-> 0, fs |-> <<>>]

\* C19 as amended: for a request whose path contains '..' the handler makes
\* no stat and no open and the estimator makes no stat and leaves est_cost 0;
\* the handler answers 403 when the method is GET or HEAD, and 405 otherwise.
C19_TraversalGuardForGetAndHead ==
  /\ (Processed /\ NamesTraversal(req)) =>
       /\ fsLog = <<>>
       /\ resp.status = IF req[1][1] \in {"GET", "HEAD"} THEN 403 ELSE 405
  /\ (hpc = "queued" /\ NamesTraversal(req)) =>
       estLog = [est |-> 0, fs |-> <<>>]

\* a GET for a name with .. in it was answered 403 on a connection kept alive
C19_Witness ==
  /\ hpc = "loop"
  /\ NamesTraversal(req)
  /\ req[1][2] = "/a..b"
  /\ resp.status = 403

ValidationFailure == Processed /\ resp.status \in {400, 403, 404, 405}

\* C21 as stated: after a 400, 403, 404 or 405 response to a request that
\* follows at least one request answered 200, on a connection where
\* keep-alive applies and fewer than 8 requests have been served,
\* handle_client does not return but goes on to read the next request.
C21_ValidationFailuresKeepAlive ==
  (ValidationFailure /\ okSent /\ ~ClaimedClose(req) /\ served < 8) =>
    hpc = "loop"

\* C21 as amended: a 403 or 404 response, after a request answered 200 or
\* not, is followed by a further read when keep-alive applies to the request
\* and fewer than 8 requests have been served, the refused one counted, and
\* by return 0 when close applies; a 400 or 405 response is always followed
\* by return -1.
C21_RefusalsKeepAlive ==
  ValidationFailure =>
    /\ (resp.status \in {403, 404} /\ ~ClaimedClose(req) /\ served < 8) =>
         hpc = "loop"
    /\ (resp.status \in {403, 404} /\ ClaimedClose(req)) =>
         Returned /\ hret = 0
    /\ resp.status \in {400, 405} => Returned /\ hret = -1

\* after a request answered 200, a request for a missing file was answered
\* 404 and handle_client is back at the test of its loop with served < 8
C21_Witness ==
  /\ hpc = "loop"
  /\ okSent
  /\ resp.status = 404
  /\ served \in 2..7
  /\ ~ClaimedClose(req)

\* write_all failed on the response of the last pass
HeaderWriteFailed == Processed /\ io.hdr = "fail"

\* C22: whenever the write of a response header fails, for a 200 or for an
\* error response, handle_client returns -1 and neither reads nor writes on
\* the connection again.
C22_HeaderWriteFailureIsFatal ==
  HeaderWriteFailed => Returned /\ hret = -1

\* C23: when the transmission of the body fails after the 200 header was
\* sent, handle_client returns 0: it neither returns -1 nor goes on to serve
\* further requests on the connection.
C23_BodyFailureEndsConnection ==
  (Processed /\ io.body = "fail") => Returned /\ hret = 0

\* C24: a read of 0 bytes and a receive timeout make handle_client return
\* 0, another read error makes it return -1, an interrupted read is tried
\* again with served unchanged, and in none of these cases is a response
\* written.
C24_ReadOutcomes ==
  [][(hpc = "read" /\ io'.read \in ReadFailures) =>
       /\ nresp' = nresp /\ resp' = resp /\ served' = served
       /\ io'.hdr = "none"
       /\ io'.read \in {"eof", "timeout"} => hpc' = "ret" /\ hret' = 0
       /\ io'.read = "error" => hpc' = "ret" /\ hret' = -1
       /\ io'.read = "eintr" => hpc' = "read" /\ hret' = hret]_vars

\* after two requests were served the read timed out, handle_client
\* returned 0 and the socket is closed
C24_Witness ==
  /\ hpc = "closed"
  /\ io.read = "timeout"
  /\ hret = 0
  /\ served = 2
  /\ nresp = 2

\* main is in accept with no connection in the queue, or in recv with
\* nothing sent by the client: only a client, or an error, lets it go on
AwaitsClient ==
  \/ pc[Main] = "accept" /\ Backlog = 0
  \/ pc[Main] = "peek" /\ job[Main].client_fd \notin sent

\* C25: once the signal has set stop, main leaves the accept loop, runs the
\* shutdown sequence and returns 0 whatever it was doing when the signal
\* came and even if no further client connects: with stop set it is never
\* left waiting for a client.
C25_StopEndsAcceptLoop == stop => ~AwaitsClient

\* the position of a call in shutLog, 0 when main has not made it
CallAt(c) ==
  IF \E i \in 1..Len(shutLog) : shutLog[i] = c
  THEN CHOOSE i \in 1..Len(shutLog) : shutLog[i] = c
  ELSE 0

\* C26 as stated: main shuts down in this order: threadpool_destroy
\* completes, then the listening socket is closed, then metrics_shutdown
\* runs.
C26_ShutdownOrder ==
  /\ shutLog # <<>> => freed
  /\ ~listening => freed
  /\ CallAt("metrics_shutdown") > 0 =>
       /\ ~listening
       /\ CallAt("close") \in 1..(CallAt("metrics_shutdown") - 1)

\* C26 as amended: threadpool_destroy completes, then metrics_shutdown runs
\* (the reporter is told to stop and joined), then the listening socket is
\* closed.
C26_ShutdownOrderMetricsFirst ==
  /\ shutLog # <<>> => freed
  /\ ~listening => freed
  /\ CallAt("close") > 0 <=> ~listening
  /\ ~listening =>
       /\ CallAt("metrics_shutdown") \in 1..(CallAt("close") - 1)
       /\ metrics.running = 0
       /\ reporter \in {"joined", "misjoined"}

\* main has returned after both calls, with two connections served and the
\* reporter joined
C26_Witness ==
  /\ pc[Main] = "exit"
  /\ shutLog = <<"metrics_shutdown", "close">>
  /\ ~listening
  /\ freed
  /\ reporter = "joined"
  /\ Len(popped) = 2

\* C27: the peek is best-effort: with a client that has connected and sent
\* nothing main does not wait in recv but goes on, with est_cost 0, to
\* submit the job and to accept later connections.
C27_PeekDoesNotWait == pc[Main] = "peek" => ENABLED srv_peek

\* C28: pops_total counts the pops of the workers, one for each job popped,
\* so that it never exceeds submits_total and equals the number of the jobs
\* submitted with success once all of them are popped.
C28_PopsCounted ==
  /\ metrics.pops_total = Len(popped)
  /\ metrics.pops_total <= metrics.submits_total
  /\ sched.count = 0 => metrics.pops_total = Len(pushed)

\* C29: when the reporter thread cannot be created the server goes on
\* without it: metrics_running is cleared, connections are accepted and
\* served, and the shutdown sequence ends without a join of the thread that
\* was never started.
C29_NoJoinWithoutReporter ==
  /\ (reporter = "none" /\ pc[Main] # "m_init") => metrics.running = 0
  /\ pc[Main] = "ms_join" => reporter # "none"
  /\ reporter # "misjoined"
  /\ pc[Main] \notin {"crashed", "blocked"}

\* C30: when only some of the nworkers threads start, threadpool_create
\* still returns a pool, the workers that started process every job
\* submitted, and threadpool_destroy joins the workers that were started,
\* and no others, and returns.
C30_JoinsStartedWorkersOnly ==
  /\ \A w \in Workers : pc[w] # "misjoined"
  /\ pc[Main] \notin {"crashed", "blocked"}
  /\ Joined => \A f \in retOk : handled[f] >= 1 /\ closed[f] >= 1

\* C31: a worker returns from worker_main only in a step it takes under the
\* pool lock with shutdown set and the scheduler empty: it never returns
\* while the pool is running, nor leaving a job it could have popped.
C31_WorkerExitsDrained ==
  [][\A w \in Workers :
       (pc[w] # "done" /\ pc'[w] = "done") =>
         lock = w /\ shutdown = 1 /\ sched.count = 0]_vars

\* both workers have returned after jobs were popped, one of them in the
\* drain after shutdown was set with jobs queued
C31_Witness ==
  /\ \A w \in Workers : pc[w] = "done"
  /\ atShutdown.queued
  /\ Len(popped) >= 2

\* a thread at a place where it pops, pushes, or reads or writes shutdown
AtCritical(t) == pc[t] \in {"try", "after", "drain", "s_try", "d_set"}

\* C33: a worker that comes back from pthread_cond_wait(not_empty) and finds
\* the scheduler empty and shutdown unset neither returns nor handles a job,
\* and a producer that comes back from pthread_cond_wait(not_full) and finds
\* the scheduler full neither pushes nor returns: each tests again under the
\* lock and waits again.
C33_SpuriousWakeupsHarmless ==
  /\ [][\A w \in Workers :
          (pc[w] = "woken" /\ pc'[w] # "woken") => (pc'[w] = "try" /\ lock' = w)]_vars
  /\ [][\A p \in Producers :
          (pc[p] = "s_woken" /\ pc'[p] # "s_woken") => (pc'[p] = "s_try" /\ lock' = p)]_vars
  /\ [][\A w \in Workers :
          (pc[w] = "try" /\ pc'[w] # "try" /\ sched.count = 0 /\ shutdown = 0) =>
            /\ pc'[w] = "wait"
            /\ popped' = popped /\ handled' = handled /\ sched' = sched]_vars
  /\ [][\A p \in Producers :
          (pc[p] = "s_try" /\ pc'[p] # "s_try" /\ sched.count = sched.capacity
             /\ shutdown = 0) =>
            /\ pc'[p] = "s_wait"
            /\ pushed' = pushed /\ result' = result /\ sched' = sched]_vars

\* a worker has come back from its wait though nothing was ever pushed and
\* shutdown is unset, and holds the lock for its second test
C33_Witness ==
  /\ shutdown = 0
  /\ pushed = <<>>
  /\ \E w \in Workers : pc[w] = "woken"
  /\ \E v \in Workers : pc[v] = "try" /\ lock = v

\* C34: the pool mutex is held at every push and pop and at every read or
\* write of shutdown, and no worker holds it while it runs handle_client or
\* closes the socket, so that other workers pop and producers push meanwhile.
C34_LockDiscipline ==
  /\ [](\A t \in Threads : AtCritical(t) => lock = t)
  /\ [](\A w \in Holding : lock # w)
  /\ [][sched' # sched => (lock # NoThread /\ AtCritical(lock))]_vars
  /\ [][shutdown' # shutdown => (lock = Main /\ pc[Main] = "d_set")]_vars

\* while one worker is in handle_client the other holds the lock to pop and a
\* producer waits for the lock to push
C34_Witness ==
  /\ \E w \in Workers : pc[w] = "handle"
  /\ \E v \in Workers : pc[v] = "try" /\ lock = v /\ sched.count > 0
  /\ \E p \in Producers : pc[p] = "s_lock"

\* the slots of the SJF heap that hold jobs
HeapSlots == 0..(sched.count - 1)

\* C35: after every completed sjf_push and sjf_pop the array is a binary
\* min-heap under job_less: for every 0 < i < count the job in slot i is not
\* less than the job in its parent slot (i - 1) / 2.
C35_SjfHeapInvariant ==
  sched.kind = "sjf" =>
    \A i \in HeapSlots :
      i > 0 => ~job_less(sched.arr[i], sched.arr[(i - 1) \div 2])

\* a heap of three jobs or more, built from pushes that did not come in
\* job_less order, after a pop
C35_Witness ==
  /\ sched.kind = "sjf"
  /\ sched.count >= 3
  /\ Len(popped) >= 1
  /\ \E i, k \in DOMAIN pushed : i < k /\ job_less(pushed[k], pushed[i])

\* how often a job occurs in a sequence, and in the slots of the heap
Occurrences(seq, j) == Cardinality({i \in DOMAIN seq : seq[i] = j})
HeapOccurrences(j) == Cardinality({i \in HeapSlots : sched.arr[i] = j})
JobsSeen ==
  {pushed[i] : i \in DOMAIN pushed} \cup {popped[i] : i \in DOMAIN popped}
    \cup {sched.arr[i] : i \in HeapSlots}

\* C36: the SJF scheduler neither loses, duplicates nor alters a job: the
\* jobs in the heap together with the jobs popped so far are, as a multiset,
\* the jobs whose push returned 0.
C36_SjfConservation ==
  sched.kind = "sjf" =>
    \A j \in JobsSeen :
      Occurrences(pushed, j) = Occurrences(popped, j) + HeapOccurrences(j)

\* a full heap that has just refused a push, after two pops that did not
\* come out in the order of the pushes
C36_Witness ==
  /\ sched.kind = "sjf"
  /\ sched.count = sched.capacity
  /\ lastOp.op = "push" /\ lastOp.ret = -1
  /\ Len(popped) >= 2
  /\ popped[1] # pushed[1]

\* main is inside the body of its accept loop, between accept and the
\* return of threadpool_submit_job
InLoopBody == pc[Main] \in {"peek", "s_lock", "s_try", "s_wait", "s_woken", "s_ret"}

\* C39: once stop is set main accepts at most one further connection and
\* calls threadpool_submit_job at most once more before it leaves the loop,
\* and whenever main is outside the body of the loop every connection it has
\* accepted was either pushed into the pool or closed by main itself.
C39_StopBoundsAccepts ==
  /\ afterStop.accepted <= 1
  /\ afterStop.submitted <= 1
  /\ ~InLoopBody =>
       \A f \in 1..(nextFd - 1) :
         \/ f \in retOk
         \/ f \notin {pushed[i].client_fd : i \in DOMAIN pushed} /\ closed[f] = 1

\* main has returned after a run in which stop was set before the accept of
\* the second connection, which was still accepted and submitted
C39_Witness ==
  /\ pc[Main] = "exit"
  /\ afterStop = [accepted |-> 1, submitted |-> 1]
  /\ nextFd = 3
  /\ retOk = {1, 2}

\* the Content-Length of a 200: st_size as the last stat left it, which is
\* the stat of the file that is then opened, the last call of the pass
ContentLength(fs, idx) == st_size(fs[Len(fs)].path, idx)

\* C37: when the bytes the acceptor peeked hold the request line and the
\* handler answers those bytes with 200, the est_cost the acceptor computed
\* from them is the Content-Length of the response, also for "/" and for a
\* directory served through its index.html.
C37_EstimateIsContentLength ==
  (Processed /\ resp.status = 200 /\ fsLog # <<>>) =>
    estimate(req).est = ContentLength(fsLog, TRUE)

\* C38: in every line the reporter prints, the submits_est0 it read is at
\* most the submits_total it read, so the est0 percentage printed lies
\* between 0 and 100, however its loads interleave with the calls of
\* metrics_inc_submit.
C38_SnapshotConsistent ==
  snap.line.printed =>
    /\ snap.line.subs0 <= snap.line.subs
    /\ snap.line.est0_frac \in 0..100

\* C40: a pool that threadpool_create returns has a scheduler installed
\* before any worker pops and any producer pushes: no worker and no
\* threadpool_submit_job calls through a missing scheduler, also when the
\* construction of the default FIFO scheduler fails.
C40_SchedulerInstalled ==
  /\ \A w \in Workers : (pc[w] = "try" /\ lock = w) => sched # NoSched
  /\ \A p \in Producers :
       (pc[p] = "s_try" /\ lock = p /\ shutdown = 0) => sched # NoSched

\* every worker is blocked in pthread_cond_wait(not_empty), none signalled
AllWorkersWait == \A w \in Workers : pc[w] = "wait"

\* the producers that were woken from pthread_cond_wait(not_full) and have
\* not yet tested the scheduler again
WokenProducers == {q \in Producers : pc[q] \in {"s_woken", "s_try"}}

\* every job pushed is popped in the end
EveryJobPopped == \A f \in Fds : []<>(f \notin PushedFds \/ f \in PoppedFds)

\* C32 as stated: the scheduler is never non-empty while every worker is
\* blocked on not_empty with no signal pending, no producer is ever blocked
\* on not_full while the scheduler has free space and the pool is running,
\* and every job pushed into the FIFO scheduler is popped in the end.
C32_NoLostWakeup ==
  /\ [](~(sched.count > 0 /\ AllWorkersWait))
  /\ [](~(shutdown = 0 /\ sched.count < sched.capacity
           /\ \E p \in Producers : pc[p] = "s_wait"))
  /\ EveryJobPopped

\* C32 as amended: the scheduler is never non-empty while every worker is
\* blocked on not_empty with no signal pending; while the pool is running a
\* producer is blocked on not_full with free space in the scheduler only as
\* long as, for every free slot, another producer that was woken has not yet
\* tested again; and every job pushed into the FIFO scheduler is popped in
\* the end.
C32_NoLostWakeupButWoken ==
  /\ [](~(sched.count > 0 /\ AllWorkersWait))
  /\ []((shutdown = 0 /\ \E p \in Producers : pc[p] = "s_wait") =>
          sched.capacity - sched.count <= Cardinality(WokenProducers))
  /\ EveryJobPopped

\* one producer is still blocked on not_full after a pop has freed a slot
\* and woken the other producer, which has not yet taken the lock
C32_Witness ==
  /\ shutdown = 0
  /\ sched.count < sched.capacity
  /\ \E p, q \in Extras : pc[p] = "s_wait" /\ pc[q] = "s_woken"
  /\ Len(popped) >= 1

====
